---- MODULE Spec2Model ----
(***************************************************************************)
(* A state-machine model of the Vulkan runtime of src/runtime/vulkan/      *)
(* vulkan.cc: the per-module pipeline cache (VulkanModuleNode), the launch *)
(* front-end (VulkanWrappedFunc), the per-thread caches                    *)
(* (VulkanThreadEntry) and the device facade (VulkanDeviceAPI).            *)
(*                                                                         *)
(* VulkanStream (vulkan_stream.h) and the helpers of vulkan_common.h and   *)
(* pack_args.h live in headers outside vulkan.cc; they are modelled from   *)
(* the written specification (sections 3, 4.6 and 4.7).                    *)
(*                                                                         *)
(* Vulkan entry points are the environment: every call succeeds and        *)
(* returns a fresh non-null handle.                                        *)
(***************************************************************************)
EXTENDS Integers, Sequences, FiniteSets, TLC

(***************************************************************************)
(* Program constants                                                       *)
(***************************************************************************)
\* sizeof(ArgUnion64): one packed scalar slot.
SizeofArgUnion64 == 8

kTVMOpaqueHandle == "handle"
kPOD == "pod"

VK_DESCRIPTOR_TYPE_STORAGE_BUFFER == "STORAGE_BUFFER"
VK_DESCRIPTOR_TYPE_UNIFORM_BUFFER == "UNIFORM_BUFFER"

\* sizeof(VkDescriptorBufferInfo): a VkBuffer and two VkDeviceSize.
SizeofVkDescriptorBufferInfo == 24

VK_NULL_HANDLE == [null |-> TRUE]

\* TVMStreamHandle values: the null handle and one that is not null.
nullptr == "nullptr"
StreamHandles == {nullptr, "stream"}

(***************************************************************************)
(* Bounds of the model                                                     *)
(***************************************************************************)
\* Launches and copies a thread may have recorded and not yet submitted, in
\* each of the specifications below.
MaxPending == 2
MaxPipePending == 2
MaxCallPending == 1
MaxFreePending == 1
MaxDeferredPending == 3
MaxUboPending == 2
MaxFacadePending == 1
MaxModulePending == 1
\* Longest argument list of a kernel.
MaxArgs == 3
\* Device buffers that can be live at once.
MaxBufs == 2
\* Largest copy (and device buffer) size, in bytes.
MaxSize == 2

Threads == {"t1", "t2"}
Devices == {0, 1}
Names == {"f", "g"}
\* The callables a program holds: results of GetFunction.
Funcs == {"c1", "c2"}
BufIds == 1..MaxBufs
\* Values a packed scalar slot may take.
Scalars == {1, 2}
NoThread == "none"

VARIABLES
  instance_,         \* VulkanDeviceAPI::instance_ : the VkInstance
  context_,          \* VulkanDeviceAPI::context_  : per device VulkanContext
  fmap_,             \* VulkanModuleNode::fmap_    : name -> arg_types
  smap_,             \* VulkanModuleNode::smap_    : name -> [flag]
  source_,           \* VulkanModuleNode::source_  : the source text
  ecache_,           \* VulkanModuleNode::ecache_  : device -> name -> pipeline
  ekeys_,            \* the keys present in ecache_[device]
  mutex_,            \* VulkanModuleNode::mutex_   : the thread holding it
  funcs,             \* the VulkanWrappedFunc objects GetFunction returned
  device,            \* VulkanThreadEntry::device  : per thread device id
  streams_,          \* VulkanThreadEntry::streams_
  staging_buffers_,  \* VulkanThreadEntry::staging_buffers_
  uniform_buffers_,  \* VulkanThreadEntry::uniform_buffers_
  heap,              \* the VulkanBuffer objects of AllocDataSpace
  descriptor_sets,   \* the contents of the allocated descriptor sets
  pc,                \* each thread's position inside operator()
  call,              \* each thread's current operator() invocation
  last,              \* the step taken last: who, what, with what result
  events,            \* what that step did, in order
  nbuilt             \* pipelines built so far per (device, name)

vars == << instance_, context_, fmap_, smap_, source_, ecache_, ekeys_,
           mutex_, funcs, device, streams_, staging_buffers_, uniform_buffers_, heap,
           descriptor_sets, pc, call, last, events, nbuilt >>

(***************************************************************************)
(* Small helpers                                                           *)
(***************************************************************************)
RECURSIVE Repeat(_, _)
Repeat(x, n) == IF n <= 0 THEN << >> ELSE << x >> \o Repeat(x, n - 1)

SeqCount(s, v) == Cardinality({i \in 1..Len(s) : s[i] = v})

\* dst with its elements off+1 .. off+Len(src) replaced by src (memcpy / copy).
Overwrite(dst, off, src) ==
  [i \in 1..Len(dst) |->
     IF i > off /\ i <= off + Len(src) THEN src[i - off] ELSE dst[i]]

Range(s) == {s[i] : i \in 1..Len(s)}

Slice(s, off, n) == [i \in 1..n |-> s[off + i]]

Reverse(s) == [i \in 1..Len(s) |-> s[Len(s) + 1 - i]]

\* The sequences that list every element of the set S once.
Orders(S) ==
  {o \in [1..Cardinality(S) -> S] : \A x \in S : \E i \in DOMAIN o : o[i] = x}

\* The element of a one-element set. The({F(x) : x \in {v}}) is F(v) with v
\* evaluated once, the way a local holds the result of a call.
The(S) == CHOOSE r \in S : TRUE

(***************************************************************************)
(* The mutable state a handler works on, as one record, so that a handler  *)
(* and the calls it makes compose as functions from state to state.        *)
(* events is the log of the step being taken, exec what the dispatches of  *)
(* the submit in progress have observed.                                   *)
(***************************************************************************)
Env ==
  [ streams_ |-> streams_, staging_buffers_ |-> staging_buffers_,
    uniform_buffers_ |-> uniform_buffers_, heap |-> heap,
    descriptor_sets |-> descriptor_sets, exec |-> << >>, events |-> << >>,
    failed |-> FALSE ]

Commit(s) ==
  /\ streams_' = s.streams_
  /\ staging_buffers_' = s.staging_buffers_
  /\ uniform_buffers_' = s.uniform_buffers_
  /\ heap' = s.heap
  /\ descriptor_sets' = s.descriptor_sets
  /\ events' = s.events

Ev(s, e) == [s EXCEPT !.events = Append(@, e)]

\* A failed ICHECK / LOG(FATAL): the handler stops here with an error.
Fail(s, what) == [Ev(s, [e |-> "FATAL", what |-> what]) EXCEPT !.failed = TRUE]

(***************************************************************************)
(* VulkanContext (vulkan_common.h)                                         *)
(***************************************************************************)
UseImmediate(d) == context_[d].descriptor_template_khr_functions

(***************************************************************************)
(* Memory: what a buffer handle refers to when the GPU reads or writes it. *)
(***************************************************************************)
BufHandle(id) == [kind |-> "buf", id |-> id]

HvbOf(s, h) ==
  IF h.kind = "staging" THEN s.staging_buffers_[h.t][h.d]
  ELSE s.uniform_buffers_[h.t][h.d]

\* The bytes behind handle h as the device sees them; << >> when the handle
\* no longer names a live buffer.
DeviceRead(s, h) ==
  IF h.kind = "buf"
    THEN IF s.heap[h.id].alive THEN s.heap[h.id].data ELSE << >>
    ELSE IF HvbOf(s, h).vk_buf = h /\ ~HvbOf(s, h).destroyed
           THEN HvbOf(s, h).dev_mem ELSE << >>

\* A device write of data at offset off behind handle h. Memory mapped
\* coherently shows the write to the host at once.
WriteHvb(b, off, data) ==
  [b EXCEPT !.dev_mem = Overwrite(@, off, data),
            !.host_mem = IF b.coherent THEN Overwrite(@, off, data) ELSE @]

DeviceWrite(s, h, off, data) ==
  IF DeviceRead(s, h) = << >> \/ off + Len(data) > Len(DeviceRead(s, h))
    THEN s
  ELSE IF h.kind = "buf"
    THEN [s EXCEPT !.heap[h.id].data = Overwrite(@, off, data)]
  ELSE IF h.kind = "staging"
    THEN [s EXCEPT !.staging_buffers_[h.t][h.d] = WriteHvb(@, off, data)]
  ELSE [s EXCEPT !.uniform_buffers_[h.t][h.d] = WriteHvb(@, off, data)]

\* memcpy(buf.host_addr, data, Len(data)) on the host mapping.
HostWrite(b, data) ==
  [b EXCEPT !.host_mem = Overwrite(@, 0, data),
            !.dev_mem = IF b.coherent THEN Overwrite(@, 0, data) ELSE @]

\* vkFlushMappedMemoryRanges / vkInvalidateMappedMemoryRanges, whole range.
vkFlushMappedMemoryRanges(b) == [b EXCEPT !.dev_mem = b.host_mem]
vkInvalidateMappedMemoryRanges(b) == [b EXCEPT !.host_mem = b.dev_mem]

(***************************************************************************)
(* The GPU: what a submitted command buffer does, command by command.      *)
(* bound is the state of the command buffer while it runs: the pipeline,   *)
(* the pushed descriptors or the bound descriptor set, the push constants. *)
(***************************************************************************)
Unbound ==
  [pipeline |-> VK_NULL_HANDLE, infos |-> << >>, set |-> VK_NULL_HANDLE,
   push |-> << >>]

\* The buffer handles a dispatch reads its arguments through.
BoundBuffers(s, bound) ==
  IF bound.set # VK_NULL_HANDLE
    THEN IF bound.set \in DOMAIN s.descriptor_sets
           THEN [i \in 1..Len(s.descriptor_sets[bound.set]) |->
                   s.descriptor_sets[bound.set][i].buffer]
           ELSE << >>
    ELSE [i \in 1..Len(bound.infos) |-> bound.infos[i].buffer]

\* What a dispatch sees: its buffers, the uniform block the last binding
\* refers to (when the pipeline has one) and the push constants.
Observe(s, bound, c) ==
  LET bufs == BoundBuffers(s, bound)
      ubo == IF c.use_ubo /\ Len(bufs) > 0
               THEN DeviceRead(s, bufs[Len(bufs)]) ELSE << >>
  IN [ pipeline |-> bound.pipeline, buffers |-> bufs,
       ubo |-> IF Len(ubo) >= c.nbytes_scalars
                 THEN Slice(ubo, 0, c.nbytes_scalars) ELSE ubo,
       use_ubo |-> c.use_ubo, push |-> bound.push,
       pack_args |-> c.pack_args, args |-> c.args, grid |-> c.grid ]

ExecCopy(s, c) ==
  LET src == DeviceRead(s, c.src)
  IN IF c.srcOffset + c.size > Len(src) THEN s
     ELSE DeviceWrite(s, c.dst, c.dstOffset, Slice(src, c.srcOffset, c.size))

\* One command: the memory and the command buffer state after it.
ExecCmd(s, bound, c) ==
  CASE c.op = "vkCmdCopyBuffer" -> [s |-> ExecCopy(s, c), bound |-> bound]
    [] c.op = "vkCmdBindPipeline" ->
         [s |-> s, bound |-> [bound EXCEPT !.pipeline = c.pipeline]]
    [] c.op = "vkCmdPushDescriptorSetWithTemplateKHR" ->
         [s |-> s, bound |-> [bound EXCEPT !.infos = c.infos,
                                           !.set = VK_NULL_HANDLE]]
    [] c.op = "vkCmdBindDescriptorSets" ->
         [s |-> s, bound |-> [bound EXCEPT !.set = c.set, !.infos = << >>]]
    [] c.op = "vkCmdPushConstants" ->
         [s |-> s, bound |-> [bound EXCEPT !.push = c.values]]
    [] c.op = "vkCmdDispatch" ->
         [s |-> [s EXCEPT !.exec = Append(@, Observe(s, bound, c))],
          bound |-> bound]
    [] OTHER -> [s |-> s, bound |-> bound]

RECURSIVE ExecCmds(_, _, _)
ExecCmds(s, bound, cmds) ==
  IF cmds = << >> THEN s
  ELSE The({ExecCmds(r.s, r.bound, Tail(cmds)) :
              r \in {ExecCmd(s, bound, Head(cmds))}})

(***************************************************************************)
(* VulkanStream (vulkan_stream.h), from the specification, section 4.7.    *)
(***************************************************************************)
NoStream ==
  [created |-> FALSE, cmd_buffer_ |-> << >>, deferred_tokens_ |-> {}]

\* VulkanThreadEntry::Stream: the thread's Stream on the device, made on
\* first use.
Stream(s, t, d) == [s EXCEPT !.streams_[t][d].created = TRUE]

\* launch(immediate_fn): the function records into the open command buffer.
Launch(s, t, d, cmds) ==
  [Ev(s, [e |-> "Launch", t |-> t, d |-> d, cmds |-> cmds])
     EXCEPT !.streams_[t][d].cmd_buffer_ = @ \o cmds]

\* launch_deferred(init_fn, kernel_fn, token): init_fn runs now unless the
\* token is already in the set, then kernel_fn is recorded.
LaunchDeferred(s, t, d, init_writes, kernel_cmds, token) ==
  LET known == token \in s.streams_[t][d].deferred_tokens_
      s1 == IF known THEN s
            ELSE [Ev(s, [e |-> "vkUpdateDescriptorSets",
                         set |-> token.descriptor_set_,
                         writes |-> init_writes])
                    EXCEPT !.descriptor_sets =
                      [h \in DOMAIN @ \cup {token.descriptor_set_} |->
                         IF h = token.descriptor_set_ THEN init_writes
                         ELSE @[h]]]
  IN [Ev(s1, [e |-> "LaunchDeferred", t |-> t, d |-> d, token |-> token,
              cmds |-> kernel_cmds])
        EXCEPT !.streams_[t][d].deferred_tokens_ = @ \cup {token},
               !.streams_[t][d].cmd_buffer_ = @ \o kernel_cmds]

\* synchronize(): end recording, submit with a fence, wait for it, reset the
\* command buffer, clear the token set.
Synchronize(s, t, d) ==
  LET cmds == s.streams_[t][d].cmd_buffer_
  IN The({[Ev(s1, [e |-> "Synchronize", t |-> t, d |-> d,
                   submitted |-> Len(cmds), exec |-> s1.exec])
             EXCEPT !.streams_[t][d].cmd_buffer_ = << >>,
                    !.streams_[t][d].deferred_tokens_ = {}] :
            s1 \in {ExecCmds([s EXCEPT !.exec = << >>], Unbound, cmds)}})

(***************************************************************************)
(* VulkanHostVisibleBuffer and the staging / uniform buffer caches         *)
(***************************************************************************)
\* A cache slot with no entry yet (a null unique_ptr); present = TRUE with
\* the other fields unchanged is a default-constructed
\* VulkanHostVisibleBuffer. host_mem is the mapping as the host sees it,
\* dev_mem the memory as the device sees it; destroyed records that
\* vk_buf has been deleted (the pointer itself is left in place).
NoHostVisibleBuffer ==
  [present |-> FALSE, device_set |-> FALSE, vk_buf |-> VK_NULL_HANDLE,
   destroyed |-> FALSE, host_addr |-> FALSE, size |-> 0, host_mem |-> << >>,
   dev_mem |-> << >>, coherent |-> FALSE, gen |-> 0]

\* The producer's variant leaves host_addr as it was.
Mutant_DeleteHostVisibleBuffer(buf) ==
  IF buf.present /\ buf.vk_buf # VK_NULL_HANDLE
    THEN [buf EXCEPT !.destroyed = TRUE]
    ELSE buf

DeleteHostVisibleBuffer(buf) ==
  IF buf.present /\ buf.vk_buf # VK_NULL_HANDLE
    THEN [buf EXCEPT !.host_addr = FALSE, !.destroyed = TRUE,
                     !.host_mem = << >>, !.dev_mem = << >>]
    ELSE buf

Buffers(s, kind) ==
  IF kind = "staging" THEN s.staging_buffers_ ELSE s.uniform_buffers_

SetBuffer(s, kind, t, d, b) ==
  IF kind = "staging" THEN [s EXCEPT !.staging_buffers_[t][d] = b]
  ELSE [s EXCEPT !.uniform_buffers_[t][d] = b]

\* CreateBuffer followed by vkMapMemory over the whole range: a new buffer
\* of nbytes bytes, mapped, with nothing written yet.
CreateBuffer(buf, kind, t, d, nbytes, coherent) ==
  [buf EXCEPT !.vk_buf = [kind |-> kind, t |-> t, d |-> d, gen |-> buf.gen + 1],
              !.gen = buf.gen + 1, !.destroyed = FALSE, !.host_addr = TRUE,
              !.size = nbytes, !.coherent = coherent,
              !.host_mem = Repeat(0, nbytes), !.dev_mem = Repeat(0, nbytes)]

\* The positions of a command buffer whose command names the buffer handle
\* h as the source or destination of a copy or in a pushed descriptor.
RecordedUses(cmd_buffer_, h) ==
  {i \in DOMAIN cmd_buffer_ :
     \/ /\ cmd_buffer_[i].op = "vkCmdCopyBuffer"
        /\ h \in {cmd_buffer_[i].src, cmd_buffer_[i].dst}
     \/ /\ cmd_buffer_[i].op = "vkCmdPushDescriptorSetWithTemplateKHR"
        /\ \E j \in DOMAIN cmd_buffer_[i].infos :
             cmd_buffer_[i].infos[j].buffer = h}

\* GetOrAllocate(device_id, size, usage, mem_type_index, buffers_ptr,
\* sync_before_realloc); kind stands for buffers_ptr and coherent for the
\* memory type.
GetOrAllocate(s, t, device_id, size, kind, coherent, sync_before_realloc) ==
  LET b0 == Buffers(s, kind)[t][device_id]
      grow == b0.present /\ b0.device_set /\ b0.size < size
      s0 == Ev(s, [e |-> "GetOrAllocate", kind |-> kind, t |-> t,
                   d |-> device_id, size |-> size,
                   had |-> b0.present /\ b0.device_set,
                   old_size |-> b0.size, old_gen |-> b0.gen])
      synced == IF grow /\ sync_before_realloc
                  THEN Synchronize(Stream(s0, t, device_id), t, device_id)
                  ELSE s0
  IN The({
       LET b1 == [Buffers(s1, kind)[t][device_id] EXCEPT !.present = TRUE]
           b2 == IF grow THEN DeleteHostVisibleBuffer(b1) ELSE b1
           s2 == IF grow
                   THEN Ev(s1, [e |-> "DeleteHostVisibleBuffer",
                                kind |-> kind, d |-> device_id,
                                buf |-> b1.vk_buf,
                                recorded |->
                                  RecordedUses(
                                    s1.streams_[t][device_id].cmd_buffer_,
                                    b1.vk_buf)])
                   ELSE s1
           b3 == [b2 EXCEPT !.device_set = TRUE]
           b4 == IF ~b3.host_addr
                   THEN CreateBuffer(b3, kind, t, device_id, size, coherent)
                   ELSE b3
           s3 == IF ~b3.host_addr
                   THEN Ev(s2, [e |-> "CreateBuffer", kind |-> kind,
                                d |-> device_id, size |-> size,
                                buf |-> b4.vk_buf])
                   ELSE s2
       IN Ev(SetBuffer(s3, kind, t, device_id, b4),
             [e |-> "return", from |-> "GetOrAllocate"]) :
       s1 \in {synced}})

\* VulkanThreadEntry::StagingBuffer
StagingBuffer(s, t, device_id, size) ==
  GetOrAllocate(s, t, device_id, size, "staging",
                context_[device_id].coherent_staging, FALSE)

\* A UBO cache that frees the old buffer without synchronizing first.
Mutant_AllocateUniformBuffer(s, t, device_id, size) ==
  GetOrAllocate(s, t, device_id, size, "ubo", TRUE, FALSE)

AllocateUniformBuffer(s, t, device_id, size) ==
  GetOrAllocate(s, t, device_id, size, "ubo", TRUE, TRUE)

\* VulkanThreadEntry::GetUniformBuffer: the two ICHECKs.
\* A size check that wants the buffer larger than the request.
Mutant_GetUniformBufferOk(s, t, device_id, size) ==
  /\ s.uniform_buffers_[t][device_id].present
  /\ s.uniform_buffers_[t][device_id].size > size

GetUniformBufferOk(s, t, device_id, size) ==
  /\ s.uniform_buffers_[t][device_id].present
  /\ s.uniform_buffers_[t][device_id].size >= size

(***************************************************************************)
(* VulkanPipeline and VulkanModuleNode::GetPipeline                        *)
(***************************************************************************)
Handle(kind, d, n, serial) ==
  [kind |-> kind, d |-> d, name |-> n, serial |-> serial]

\* A null shared_ptr<VulkanPipeline>.
NullPipeline ==
  [valid |-> FALSE, vctx_ |-> 0, name |-> "", serial |-> 0,
   shader |-> VK_NULL_HANDLE, descriptor_set_layout |-> VK_NULL_HANDLE,
   descriptor_pool |-> VK_NULL_HANDLE, descriptor_set |-> VK_NULL_HANDLE,
   pipeline_layout |-> VK_NULL_HANDLE, pipeline |-> VK_NULL_HANDLE,
   descriptor_update_template |-> VK_NULL_HANDLE, use_ubo |-> FALSE]

NoArgInfo ==
  [arg_binding |-> << >>, arg_template |-> << >>,
   descriptor_set_pool_sizes |-> << >>]

\* The push_arg_info lambda: one more binding, template entry and pool count.
push_arg_info(info, binding, desc_type) ==
  LET sizes == info.descriptor_set_pool_sizes
      found == {i \in 1..Len(sizes) : sizes[i].type = desc_type}
  IN [ descriptor_set_pool_sizes |->
         IF found = {}
           THEN Append(sizes, [type |-> desc_type, descriptorCount |-> 1])
           ELSE [i \in 1..Len(sizes) |->
                   IF i \in found
                     THEN [sizes[i] EXCEPT !.descriptorCount = @ + 1]
                     ELSE sizes[i]],
       arg_binding |->
         Append(info.arg_binding,
                [binding |-> binding, descriptorType |-> desc_type,
                 descriptorCount |-> 1]),
       arg_template |->
         Append(info.arg_template,
                [dstBinding |-> binding, dstArrayElement |-> 0,
                 descriptorCount |-> 1, descriptorType |-> desc_type,
                 offset |-> binding * SizeofVkDescriptorBufferInfo,
                 stride |-> SizeofVkDescriptorBufferInfo]) ]

\* The loop over fit->second.arg_types: acc carries the bindings so far and
\* the counters num_buffer and num_pod.
RECURSIVE WalkArgTypes(_, _)
WalkArgTypes(arg_types, acc) ==
  IF arg_types = << >> THEN acc
  ELSE IF Head(arg_types) = kTVMOpaqueHandle
    THEN WalkArgTypes(Tail(arg_types),
           [acc EXCEPT !.info = push_arg_info(@, acc.num_buffer,
                                              VK_DESCRIPTOR_TYPE_STORAGE_BUFFER),
                       !.num_buffer = @ + 1])
    ELSE WalkArgTypes(Tail(arg_types), [acc EXCEPT !.num_pod = @ + 1])

ArgWalk(func_name) ==
  WalkArgTypes(fmap_[func_name],
               [info |-> NoArgInfo, num_buffer |-> 0, num_pod |-> 0])

\* pe->use_ubo = sit->second.flag & (1 << kUseUBO)
ShaderUsesUBO(func_name) == "kUseUBO" \in smap_[func_name].flag

\* The bindings of the pipeline: the buffer arguments, then the uniform block.
PipelineArgInfo(func_name) ==
  LET w == ArgWalk(func_name)
  IN IF ShaderUsesUBO(func_name)
       THEN push_arg_info(w.info, w.num_buffer,
                          VK_DESCRIPTOR_TYPE_UNIFORM_BUFFER)
       ELSE w.info

\* size_t nbytes_scalars = num_pod * sizeof(ArgUnion64)
PipelineScalarBytes(func_name) == ArgWalk(func_name).num_pod * SizeofArgUnion64

\* The descriptor pool and the set allocated from it: deferred mode only.
PipelineHasPool(device_id) == ~UseImmediate(device_id)

\* A construction that creates the update template on every device.
Mutant_PipelineHasTemplate(device_id) == TRUE

\* The descriptor update template: immediate mode only.
PipelineHasTemplate(device_id) == UseImmediate(device_id)

\* The push constant range of the pipeline layout.
PipelineLayoutInfo(func_name, num_pack_args) ==
  IF 0 < PipelineScalarBytes(func_name) /\ ~ShaderUsesUBO(func_name)
    THEN [pushConstantRangeCount |-> 1,
          size |-> SizeofArgUnion64 * num_pack_args]
    ELSE [pushConstantRangeCount |-> 0, size |-> 0]

\* A construction that does not compare the range with the limit.
Mutant_PushConstantsFit(device_id, func_name, num_pack_args) == TRUE

\* ICHECK_LE(crange.size, maxPushConstantsSize), made when a range is declared.
PushConstantsFit(device_id, func_name, num_pack_args) ==
  PipelineLayoutInfo(func_name, num_pack_args).pushConstantRangeCount = 1
    => PipelineLayoutInfo(func_name, num_pack_args).size
         <= context_[device_id].maxPushConstantsSize

\* The VulkanPipeline a complete run of the construction code yields.
MakePipeline(device_id, func_name, num_pack_args, serial) ==
  LET info == PipelineArgInfo(func_name)
      H(kind) == Handle(kind, device_id, func_name, serial)
  IN [ valid |-> TRUE, vctx_ |-> device_id, name |-> func_name,
       serial |-> serial,
       shader |-> H("shader"),
       descriptor_set_layout |->
         [h |-> H("descriptor_set_layout"), bindings |-> info.arg_binding,
          push_descriptor |-> UseImmediate(device_id)],
       descriptor_pool |->
         IF PipelineHasPool(device_id)
           THEN [h |-> H("descriptor_pool"), maxSets |-> 1,
                 pool_sizes |-> info.descriptor_set_pool_sizes]
           ELSE VK_NULL_HANDLE,
       descriptor_set |->
         IF PipelineHasPool(device_id) THEN H("descriptor_set")
         ELSE VK_NULL_HANDLE,
       pipeline_layout |->
         [h |-> H("pipeline_layout"),
          pushConstantRangeCount |->
            PipelineLayoutInfo(func_name, num_pack_args).pushConstantRangeCount,
          size |-> PipelineLayoutInfo(func_name, num_pack_args).size],
       pipeline |-> H("pipeline"),
       descriptor_update_template |->
         IF PipelineHasTemplate(device_id)
           THEN [h |-> H("descriptor_update_template"),
                 entries |-> info.arg_template]
           ELSE VK_NULL_HANDLE,
       use_ubo |-> ShaderUsesUBO(func_name) ]

(***************************************************************************)
(* VulkanWrappedFunc: the callable and the commands of one kernel launch   *)
(***************************************************************************)
\* NumBufferArgs (pack_args.h): the buffer arguments come first.
NumBufferArgs(arg_types) ==
  LET pods == {i \in 1..Len(arg_types) : arg_types[i] # kTVMOpaqueHandle}
  IN IF pods = {} THEN Len(arg_types)
     ELSE (CHOOSE i \in pods : \A j \in pods : i <= j) - 1

Organized(arg_types) ==
  \A i \in 1..Len(arg_types) :
    i > NumBufferArgs(arg_types) => arg_types[i] # kTVMOpaqueHandle

NoFunc ==
  [state |-> "unset", func_name_ |-> "", num_buffer_args_ |-> 0,
   num_pack_args_ |-> 0, scache_ |-> [d \in Devices |-> NullPipeline]]

\* VulkanWrappedFunc::Init
WrappedFunc(func_name, num_buffer_args, num_pack_args) ==
  [state |-> "wrapped", func_name_ |-> func_name,
   num_buffer_args_ |-> num_buffer_args, num_pack_args_ |-> num_pack_args,
   scache_ |-> [d \in Devices |-> NullPipeline]]

\* The bytes of an ArgUnion64 array: each slot is SizeofArgUnion64 bytes.
PackBytes(pack_args) ==
  [i \in 1..(Len(pack_args) * SizeofArgUnion64) |->
     pack_args[((i - 1) \div SizeofArgUnion64) + 1]]

BufferInfo(h) == [buffer |-> h, offset |-> 0, range |-> "VK_WHOLE_SIZE"]

\* Descriptor infos that leave out the uniform block.
Mutant_DescriptorBuffers(f, pipeline, args, ubo) ==
  [i \in 1..f.num_buffer_args_ |-> BufferInfo(BufHandle(args[i]))]

\* descriptor_buffers: one VkDescriptorBufferInfo per buffer argument, and
\* one more for the uniform block when the pipeline uses one.
DescriptorBuffers(f, pipeline, args, ubo) ==
  [i \in 1..f.num_buffer_args_ |-> BufferInfo(BufHandle(args[i]))]
    \o (IF pipeline.use_ubo THEN << BufferInfo(ubo.vk_buf) >> ELSE << >>)

PostDispatchBarrier ==
  [op |-> "vkCmdPipelineBarrier",
   srcStageMask |-> {"COMPUTE_SHADER"},
   dstStageMask |-> {"TRANSFER", "COMPUTE_SHADER"},
   srcAccessMask |-> {"SHADER_WRITE", "SHADER_READ"},
   dstAccessMask |-> {"TRANSFER_READ", "TRANSFER_WRITE", "SHADER_READ",
                      "SHADER_WRITE"}]

\* vkCmdDispatch, together with what the launch it belongs to passed: the
\* model's record of the call, which the device does not see.
Dispatch(f, pipeline, c) ==
  [op |-> "vkCmdDispatch", grid |-> c.grid, use_ubo |-> pipeline.use_ubo,
   nbytes_scalars |-> f.num_pack_args_ * SizeofArgUnion64,
   pack_args |-> PackBytes(c.pack_args),
   args |-> [i \in 1..Len(c.args) |-> BufHandle(c.args[i])],
   descriptor_set |-> pipeline.descriptor_set]

\* Scalars that are pushed in UBO mode as well.
Mutant_PushConstants(f, pipeline, nbytes, values) ==
  IF f.num_pack_args_ > 0
    THEN << [op |-> "vkCmdPushConstants", layout |-> pipeline.pipeline_layout.h,
             offset |-> 0, size |-> nbytes, values |-> values] >>
    ELSE << >>

\* The scalars of a launch: nothing recorded in UBO mode (they are copied
\* into the UBO mapping instead), else vkCmdPushConstants when there are any.
PushConstants(f, pipeline, nbytes, values) ==
  IF pipeline.use_ubo THEN << >>
  ELSE IF f.num_pack_args_ > 0
    THEN << [op |-> "vkCmdPushConstants", layout |-> pipeline.pipeline_layout.h,
             offset |-> 0, size |-> nbytes, values |-> values] >>
    ELSE << >>

\* The lambda of the immediate path.
ImmediateKernel(f, pipeline, c, descriptor_buffers) ==
  << [op |-> "vkCmdBindPipeline", pipeline |-> pipeline.pipeline],
     [op |-> "vkCmdPushDescriptorSetWithTemplateKHR",
      template |-> pipeline.descriptor_update_template,
      layout |-> pipeline.pipeline_layout.h, infos |-> descriptor_buffers] >>
  \o PushConstants(f, pipeline, f.num_pack_args_ * SizeofArgUnion64,
                   PackBytes(c.pack_args))
  \o << Dispatch(f, pipeline, c), PostDispatchBarrier >>

\* An initializer that writes every descriptor as a storage buffer.
Mutant_DeferredInitializer(pipeline, descriptor_buffers) ==
  [i \in 1..Len(descriptor_buffers) |->
     [dstSet |-> pipeline.descriptor_set, dstBinding |-> i - 1,
      descriptorCount |-> 1, buffer |-> descriptor_buffers[i].buffer,
      descriptorType |-> VK_DESCRIPTOR_TYPE_STORAGE_BUFFER]]

\* deferred_initializer: the writes handed to vkUpdateDescriptorSets.
DeferredInitializer(pipeline, descriptor_buffers) ==
  [i \in 1..Len(descriptor_buffers) |->
     [dstSet |-> pipeline.descriptor_set, dstBinding |-> i - 1,
      descriptorCount |-> 1, buffer |-> descriptor_buffers[i].buffer,
      descriptorType |->
        IF pipeline.use_ubo /\ i = Len(descriptor_buffers)
          THEN VK_DESCRIPTOR_TYPE_UNIFORM_BUFFER
          ELSE VK_DESCRIPTOR_TYPE_STORAGE_BUFFER]]

\* deferred_kernel; pack_args_storage is the launch's own copy of pack_args.
DeferredKernel(f, pipeline, c) ==
  << [op |-> "vkCmdBindPipeline", pipeline |-> pipeline.pipeline],
     [op |-> "vkCmdBindDescriptorSets", layout |-> pipeline.pipeline_layout.h,
      set |-> pipeline.descriptor_set] >>
  \o PushConstants(f, pipeline, Len(c.pack_args) * SizeofArgUnion64,
                   PackBytes(c.pack_args))
  \o << Dispatch(f, pipeline, c), PostDispatchBarrier >>

\* A token that stands for the descriptor set alone.
Mutant_DeferredToken(pipeline, descriptor_buffers) ==
  [descriptor_set_ |-> pipeline.descriptor_set, buffers_ |-> << >>]

\* deferred_token
DeferredToken(pipeline, descriptor_buffers) ==
  [descriptor_set_ |-> pipeline.descriptor_set,
   buffers_ |-> [i \in 1..Len(descriptor_buffers) |->
                   descriptor_buffers[i].buffer]]

\* Launches and copies recorded on a command buffer and not yet submitted.
Pending(cmds) ==
  Cardinality({i \in 1..Len(cmds) :
                 cmds[i].op \in {"vkCmdDispatch", "vkCmdCopyBuffer"}})

(***************************************************************************)
(* VulkanDeviceAPI: device memory and copies                               *)
(***************************************************************************)
\* requested is the nbytes AllocDataSpace was called with.
NoBuffer ==
  [alive |-> FALSE, dev |-> 0, size |-> 0, data |-> << >>, requested |-> 0]

\* Whether a recorded command refers to the device buffer ptr.
References(c, ptr) ==
  \/ c.op = "vkCmdCopyBuffer" /\ BufHandle(ptr) \in {c.src, c.dst}
  \/ c.op = "vkCmdDispatch"
       /\ \E i \in 1..Len(c.args) : c.args[i] = BufHandle(ptr)
  \/ c.op = "vkCmdPushDescriptorSetWithTemplateKHR"
       /\ \E i \in 1..Len(c.infos) : c.infos[i].buffer = BufHandle(ptr)

\* The threads whose Stream on device d holds a command referring to ptr.
ReferencedBy(s, d, ptr) ==
  {u \in Threads :
     \E i \in 1..Len(s.streams_[u][d].cmd_buffer_) :
       References(s.streams_[u][d].cmd_buffer_[i], ptr)}

\* A StreamSync that returns without synchronizing.
Mutant_StreamSyncOp(s, t, d) == Stream(s, t, d)

\* VulkanDeviceAPI::StreamSync (the stream handle is the null handle).
StreamSyncOp(s, t, d) == Synchronize(Stream(s, t, d), t, d)

\* An AllocDataSpace that passes a zero-byte request on as it is.
Mutant_AllocSize(nbytes) == nbytes

\* VulkanDeviceAPI::AllocDataSpace: a zero-byte request becomes one byte.
AllocSize(nbytes) == IF nbytes = 0 THEN 1 ELSE nbytes

\* A FreeDataSpace that destroys the buffer without synchronizing first.
Mutant_FreeDataSpaceOp(s, t, d, ptr) ==
  [Ev(s, [e |-> "vkDestroyBuffer", ptr |-> ptr, d |-> d,
          referenced_by |-> ReferencedBy(s, d, ptr)])
     EXCEPT !.heap[ptr] = NoBuffer]

\* VulkanDeviceAPI::FreeDataSpace. The vkDestroyBuffer event notes whose
\* Streams on the device still hold commands that refer to the buffer.
FreeDataSpaceOp(s, t, d, ptr) ==
  The({[Ev(s1, [e |-> "vkDestroyBuffer", ptr |-> ptr, d |-> d,
                referenced_by |-> ReferencedBy(s1, d, ptr)])
          EXCEPT !.heap[ptr] = NoBuffer] :
         s1 \in {StreamSyncOp(s, t, d)}})

CopyCmd(src, dst, srcOffset, dstOffset, size) ==
  [op |-> "vkCmdCopyBuffer", src |-> src, dst |-> dst,
   srcOffset |-> srcOffset, dstOffset |-> dstOffset, size |-> size]

TransferBarrier ==
  [op |-> "vkCmdPipelineBarrier",
   srcStageMask |-> {"TRANSFER"},
   dstStageMask |-> {"TRANSFER", "COMPUTE_SHADER"},
   srcAccessMask |-> {"TRANSFER_WRITE"},
   dstAccessMask |-> {"TRANSFER_READ", "TRANSFER_WRITE", "SHADER_READ",
                      "SHADER_WRITE"}]

HostBarrier ==
  [op |-> "vkCmdPipelineBarrier",
   srcStageMask |-> {"HOST"}, dstStageMask |-> {"TRANSFER"},
   srcAccessMask |-> {}, dstAccessMask |-> {"TRANSFER_WRITE"}]

\* A device-to-device copy that does not compare the device ids.
Mutant_CopyDeviceToDevice(s, t, from, from_offset, to, to_offset, size, dev_from, dev_to) ==
  Launch(Launch(Stream(s, t, dev_from), t, dev_from,
                << CopyCmd(BufHandle(from), BufHandle(to), from_offset,
                           to_offset, size) >>),
         t, dev_from, << TransferBarrier >>)

\* CopyDataFromTo, device to device: the lambda records the copy, then
\* checks the device ids, then records the barrier.
CopyDeviceToDevice(s, t, from, from_offset, to, to_offset, size, dev_from, dev_to) ==
  LET s1 == Launch(Stream(s, t, dev_from), t, dev_from,
                   << CopyCmd(BufHandle(from), BufHandle(to), from_offset,
                              to_offset, size) >>)
  IN IF dev_from # dev_to
       THEN Fail(s1, "Vulkan disallow cross device copy.")
       ELSE Launch(s1, t, dev_from, << TransferBarrier >>)

\* A host-to-device copy that leaves out the flush of non-coherent memory.
Mutant_StagingFlush(s, t, d, coherent_staging) == s

\* if (!vctx.coherent_staging) vkFlushMappedMemoryRanges(...)
StagingFlush(s, t, d, coherent_staging) ==
  IF ~coherent_staging
    THEN Ev([s EXCEPT !.staging_buffers_[t][d] = vkFlushMappedMemoryRanges(@)],
            [e |-> "vkFlushMappedMemoryRanges", d |-> d,
             buf |-> s.staging_buffers_[t][d].vk_buf])
    ELSE s

\* A device-to-host copy that reads the mapping as the host last saw it.
Mutant_StagingInvalidate(s, t, d, coherent_staging) == s

\* if (!vctx.coherent_staging) vkInvalidateMappedMemoryRanges(...)
StagingInvalidate(s, t, d, coherent_staging) ==
  IF ~coherent_staging
    THEN Ev([s EXCEPT !.staging_buffers_[t][d] =
                        vkInvalidateMappedMemoryRanges(@)],
            [e |-> "vkInvalidateMappedMemoryRanges", d |-> d,
             buf |-> s.staging_buffers_[t][d].vk_buf])
    ELSE s

\* A host-to-device copy that returns once the copy is recorded.
Mutant_CopyHostToDevice(s, t, bytes, to, to_offset, dev_to) ==
  The({Launch(Stream(s3, t, dev_to), t, dev_to,
              << HostBarrier,
                 CopyCmd(s3.staging_buffers_[t][dev_to].vk_buf,
                         BufHandle(to), 0, to_offset, Len(bytes)) >>) :
         s3 \in {StagingFlush(s2, t, dev_to,
                              context_[dev_to].coherent_staging) :
           s2 \in {Ev([s1 EXCEPT !.staging_buffers_[t][dev_to] =
                                   HostWrite(@, bytes)],
                       [e |-> "memcpy", to |-> "staging",
                        size |-> Len(bytes), bytes |-> bytes]) :
             s1 \in {StagingBuffer(s, t, dev_to, Len(bytes))}}}})

\* CopyDataFromTo, host to device; bytes are the size bytes at from +
\* from_offset.
CopyHostToDevice(s, t, bytes, to, to_offset, dev_to) ==
  LET size == Len(bytes)
      Written(s1) ==
        Ev([s1 EXCEPT !.staging_buffers_[t][dev_to] = HostWrite(@, bytes)],
           [e |-> "memcpy", to |-> "staging", size |-> size, bytes |-> bytes])
      Recorded3(s3) ==
        Launch(Stream(s3, t, dev_to), t, dev_to,
               << HostBarrier,
                  CopyCmd(s3.staging_buffers_[t][dev_to].vk_buf,
                          BufHandle(to), 0, to_offset, size) >>)
  IN The({Synchronize(s4, t, dev_to) :
            s4 \in {Recorded3(s3) :
              s3 \in {StagingFlush(s2, t, dev_to,
                                   context_[dev_to].coherent_staging) :
                s2 \in {Written(s1) :
                  s1 \in {StagingBuffer(s, t, dev_to, size)}}}}})

\* A device-to-host copy that reads the mapping without waiting for the
\* copy it has recorded.
Mutant_CopyDeviceToHost(s, t, from, from_offset, size, dev_from) ==
  LET Copied(s1) ==
        Launch(Stream(s1, t, dev_from), t, dev_from,
               << CopyCmd(BufHandle(from),
                          s1.staging_buffers_[t][dev_from].vk_buf,
                          from_offset, 0, size) >>)
      Received(s4) ==
        Ev(s4, [e |-> "memcpy", to |-> "host", size |-> size,
                bytes |-> Slice(s4.staging_buffers_[t][dev_from].host_mem,
                                0, size)])
  IN The({Received(s4) :
            s4 \in {StagingInvalidate(s3, t, dev_from,
                                      context_[dev_from].coherent_staging) :
              s3 \in {Copied(s1) :
                s1 \in {StagingBuffer(s, t, dev_from, size)}}}})

\* CopyDataFromTo, device to host: the state afterwards; the bytes that
\* arrive at to + to_offset are the first size bytes of the mapping.
CopyDeviceToHost(s, t, from, from_offset, size, dev_from) ==
  LET Copied(s1) ==
        Synchronize(
          Launch(Stream(s1, t, dev_from), t, dev_from,
                 << CopyCmd(BufHandle(from),
                            s1.staging_buffers_[t][dev_from].vk_buf,
                            from_offset, 0, size) >>),
          t, dev_from)
      Received(s4) ==
        Ev(s4, [e |-> "memcpy", to |-> "host", size |-> size,
                bytes |-> Slice(s4.staging_buffers_[t][dev_from].host_mem,
                                0, size)])
  IN The({Received(s4) :
            s4 \in {StagingInvalidate(s3, t, dev_from,
                                      context_[dev_from].coherent_staging) :
              s3 \in {Copied(s1) :
                s1 \in {StagingBuffer(s, t, dev_from, size)}}}})

HostReceived(s, t, size, dev_from) ==
  Slice(s.staging_buffers_[t][dev_from].host_mem, 0, size)

(***************************************************************************)
(* Initial states                                                          *)
(***************************************************************************)
cfgVars == << instance_, context_, fmap_, smap_, source_ >>
cacheVars == << ecache_, ekeys_, mutex_, nbuilt >>
callVars == << funcs, pc, call >>

\* The producer's variant loads the push descriptor functions on every
\* device, whatever its target says.
Mutant_NewContext(supports_push_descriptor, coherent_staging, maxPushConstantsSize) ==
  [target |-> [supports_push_descriptor |-> supports_push_descriptor],
   descriptor_template_khr_functions |-> TRUE,
   coherent_staging |-> coherent_staging,
   maxPushConstantsSize |-> maxPushConstantsSize]

\* The VulkanContext the constructor pushes to context_, as far as the code
\* reads it: descriptor_template_khr_functions is made if and only if the
\* target has supports_push_descriptor.
NewContext(supports_push_descriptor, coherent_staging, maxPushConstantsSize) ==
  [target |-> [supports_push_descriptor |-> supports_push_descriptor],
   descriptor_template_khr_functions |-> supports_push_descriptor,
   coherent_staging |-> coherent_staging,
   maxPushConstantsSize |-> maxPushConstantsSize]

\* The contexts the constructor can make.
Contexts ==
  {NewContext(p, c, m) :
     p \in BOOLEAN, c \in BOOLEAN,
     m \in {SizeofArgUnion64, 2 * SizeofArgUnion64}}

\* The argument lists of kernels: buffers first, then scalars.
ArgTypeSeqs ==
  {Repeat(kTVMOpaqueHandle, nb) \o Repeat(kPOD, np) :
     nb \in 0..MaxArgs, np \in 0..MaxArgs} \cap
  UNION {[1..k -> {kTVMOpaqueHandle, kPOD}] : k \in 0..MaxArgs}

ShaderFlags == {{}, {"kUseUBO"}}

\* The state after the DeviceAPI, the thread entries and a module with
\* tables fmap and smap have been constructed.
InitWith(ctxs, fmaps, smaps) ==
  /\ instance_ = "VkInstance"
  /\ context_ \in ctxs
  /\ fmap_ \in fmaps
  /\ smap_ \in smaps
  /\ source_ = ""
  /\ ecache_ = [d \in Devices |-> [n \in Names |-> NullPipeline]]
  /\ ekeys_ = [d \in Devices |-> {}]
  /\ mutex_ = NoThread
  /\ funcs = [c \in Funcs |-> NoFunc]
  /\ device = [t \in Threads |-> 0]
  /\ streams_ = [t \in Threads |-> [d \in Devices |-> NoStream]]
  /\ staging_buffers_ =
       [t \in Threads |-> [d \in Devices |-> NoHostVisibleBuffer]]
  /\ uniform_buffers_ =
       [t \in Threads |-> [d \in Devices |-> NoHostVisibleBuffer]]
  /\ heap = [b \in BufIds |-> NoBuffer]
  /\ descriptor_sets = << >>
  /\ pc = [t \in Threads |-> "idle"]
  /\ call = [t \in Threads |-> [f |-> "none"]]
  /\ last = [op |-> "none", ok |-> TRUE]
  /\ events = << >>
  /\ nbuilt = [d \in Devices |-> [n \in Names |-> 0]]

(***************************************************************************)
(* Actions of the module and of the launch front-end                       *)
(***************************************************************************)
\* symbol::tvm_module_main, the name GetFunction refuses.
tvm_module_main == "__tvm_main__"

\* The producer's variant looks the name up as fmap_[name] would: a name
\* without an entry gets a callable of a kernel without arguments.
Mutant_Lookup(fmap, name) ==
  IF name \notin DOMAIN fmap
    THEN WrappedFunc(name, 0, 0)
    ELSE WrappedFunc(name, NumBufferArgs(fmap[name]),
                     Len(fmap[name]) - NumBufferArgs(fmap[name]))

\* What GetFunction returns once its checks have passed: PackedFunc(), the
\* empty callable, for a name fmap_.find does not find.
Lookup(fmap, name) ==
  IF name \notin DOMAIN fmap
    THEN [NoFunc EXCEPT !.state = "empty"]
    ELSE WrappedFunc(name, NumBufferArgs(fmap[name]),
                     Len(fmap[name]) - NumBufferArgs(fmap[name]))

\* VulkanModuleNode::GetFunction into the program's slot c.  The caller
\* passes the module itself as sptr_to_self.
GetFunction(c, name) ==
  /\ funcs[c].state = "unset"
  /\ \A t \in Threads : pc[t] = "idle"
  /\ name \in DOMAIN fmap_ => Organized(fmap_[name])
  /\ IF name = tvm_module_main
       THEN /\ events' = << [e |-> "FATAL",
                             what |-> "Device function do not have main"] >>
            /\ UNCHANGED funcs
       ELSE /\ events' = << >>
            /\ funcs' = [funcs EXCEPT ![c] = Lookup(fmap_, name)]
  /\ last' = [op |-> "GetFunction", ok |-> name # tvm_module_main,
              c |-> c, name |-> name, ecache_ |-> ecache_, ekeys_ |-> ekeys_]
  /\ UNCHANGED << cfgVars, cacheVars, device, streams_, staging_buffers_,
                  uniform_buffers_, heap, descriptor_sets, pc, call >>

\* VulkanDeviceAPI::SetDevice
SetDevice(t, d) ==
  /\ pc[t] = "idle"
  /\ device[t] # d
  /\ device' = [device EXCEPT ![t] = d]
  /\ last' = [op |-> "SetDevice", ok |-> TRUE]
  /\ events' = << >>
  /\ UNCHANGED << cfgVars, cacheVars, callVars, streams_, staging_buffers_,
                  uniform_buffers_, heap, descriptor_sets >>

\* VulkanWrappedFunc::operator(), up to the test of scache_[device_id].
CallBegin(t, c, args, v, grid) ==
  LET f == funcs[c]
      d == device[t]
  IN /\ pc[t] = "idle"
     /\ f.state = "wrapped"
     /\ Len(args) = f.num_buffer_args_
     /\ \A i \in 1..Len(args) : heap[args[i]].alive /\ heap[args[i]].dev = d
     /\ call' = [call EXCEPT ![t] =
          [f |-> c, device_id |-> d, args |-> args,
           pack_args |-> Repeat(v, f.num_pack_args_), grid |-> grid]]
     /\ pc' = [pc EXCEPT ![t] =
          IF f.scache_[d].valid THEN "launch" ELSE "GetPipeline"]
     /\ events' = << >>
     /\ last' = [op |-> "operator()", ok |-> TRUE]
     /\ UNCHANGED << cfgVars, cacheVars, funcs, device, streams_,
                     staging_buffers_, uniform_buffers_, heap,
                     descriptor_sets >>

\* A lock that is granted whoever holds the mutex.
Mutant_CanLock(t) == TRUE

\* std::lock_guard<std::mutex> lock(mutex_)
CanLock(t) == mutex_ = NoThread

\* GetPipeline from its entry to the cache lookup: a hit returns the cached
\* pipeline (and releases the lock), a miss goes on to construct one.
GetPipelineLookup(t) ==
  LET c == call[t].f
      d == call[t].device_id
      n == funcs[c].func_name_
      cp == ecache_[d][n]
  IN /\ pc[t] = "GetPipeline"
     /\ CanLock(t)
     /\ ekeys_' = [ekeys_ EXCEPT ![d] = @ \cup {n}]
     /\ events' = << >>
     /\ last' = [op |-> "GetPipeline", ok |-> TRUE, t |-> t, d |-> d,
                 name |-> n, hit |-> cp.valid, pipeline |-> cp]
     /\ IF cp.valid
          THEN /\ funcs' = [funcs EXCEPT ![c].scache_[d] = cp]
               /\ pc' = [pc EXCEPT ![t] = "launch"]
               /\ UNCHANGED mutex_
          ELSE /\ mutex_' = t
               /\ pc' = [pc EXCEPT ![t] = "build"]
               /\ UNCHANGED funcs
     /\ UNCHANGED << cfgVars, ecache_, nbuilt, device, streams_,
                     staging_buffers_, uniform_buffers_, heap,
                     descriptor_sets, call >>

\* The Vulkan objects GetPipeline creates for pe, in the order of creation.
CreationOrder(pe) ==
  << "vkCreateShaderModule", "vkCreateDescriptorSetLayout" >>
  \o (IF pe.descriptor_pool # VK_NULL_HANDLE
        THEN << "vkCreateDescriptorPool", "vkAllocateDescriptorSets" >>
        ELSE << >>)
  \o << "vkCreatePipelineLayout", "vkCreateComputePipelines" >>
  \o (IF pe.descriptor_update_template # VK_NULL_HANDLE
        THEN << "vkCreateDescriptorUpdateTemplateKHR" >> ELSE << >>)

\* The calls of CreationOrder(pe) made before the one named failing fails,
\* or all of them when none of them is named.
CreatedBefore(pe, failing) ==
  LET order == CreationOrder(pe)
      at == {i \in DOMAIN order : order[i] = failing}
  IN IF at = {} THEN order
     ELSE SubSeq(order, 1, (CHOOSE i \in at : TRUE) - 1)

\* VULKAN_CALL: a result other than VK_SUCCESS is fatal. The event records
\* the objects the construction had created by then; the code has no
\* statement between a creation and the store into ecache_ that destroys one.
VulkanCallFails(s, pe, failing) ==
  Fail(Ev(s, [e |-> "abandoned", created |-> CreatedBefore(pe, failing)]),
       "VULKAN_CALL")

\* GetPipeline from "Create new pipeline" to the store into ecache_; failing
\* names the Vulkan call of the construction that does not succeed, if any.
GetPipelineConstruct(t, failing) ==
  LET c == call[t].f
      d == call[t].device_id
      n == funcs[c].func_name_
      num_pack_args == funcs[c].num_pack_args_
      s0 == Env
      built == [op |-> "GetPipelineBuild", t |-> t, d |-> d, name |-> n]
      found == n \in DOMAIN smap_
      s1 == IF found /\ ShaderUsesUBO(n)
              THEN AllocateUniformBuffer(s0, t, d, PipelineScalarBytes(n))
              ELSE s0
      fits == found /\ PushConstantsFit(d, n, num_pack_args)
      pe == MakePipeline(d, n, num_pack_args, nbuilt[d][n] + 1)
      made == CreatedBefore(pe, failing)
      checked == CreatedBefore(pe, "vkCreatePipelineLayout")
      Stop(s) ==
        /\ Commit(s)
        /\ pc' = [pc EXCEPT ![t] = "idle"]
        /\ last' = built @@ [ok |-> FALSE]
        /\ UNCHANGED << ecache_, nbuilt, funcs >>
  IN /\ pc[t] = "build"
     /\ mutex_' = NoThread
     /\ UNCHANGED << cfgVars, ekeys_, device, call >>
     /\ IF ~found
          THEN Stop(Fail(s0, "ICHECK(sit != smap_.end())"))
        ELSE IF made = << >>
          THEN Stop(VulkanCallFails(s0, pe, failing))
        ELSE IF Len(made) < Len(checked)
          THEN Stop(VulkanCallFails(s1, pe, failing))
        ELSE IF ~fits
          THEN Stop(Fail(Ev(s1, [e |-> "abandoned", created |-> checked]),
                         "ICHECK_LE(crange.size, maxPushConstantsSize)"))
        ELSE IF Len(made) < Len(CreationOrder(pe))
          THEN Stop(VulkanCallFails(s1, pe, failing))
        ELSE /\ Commit(Ev(s1, [e |-> "built", created |-> CreationOrder(pe)]))
             /\ ecache_' = [ecache_ EXCEPT ![d][n] = pe]
             /\ nbuilt' = [nbuilt EXCEPT ![d][n] = @ + 1]
             /\ funcs' = [funcs EXCEPT ![c].scache_[d] = pe]
             /\ pc' = [pc EXCEPT ![t] = "launch"]
             /\ last' = built @@ [ok |-> TRUE, pipeline |-> pe]

\* The construction when every Vulkan call succeeds.
GetPipelineBuild(t) == GetPipelineConstruct(t, "none")

\* A teardown that destroys the objects in the order of their creation.
Mutant_DestroyOrder(pe) ==
  << [call |-> "vkDestroyShaderModule", handle |-> pe.shader],
     [call |-> "vkDestroyDescriptorSetLayout",
      handle |-> pe.descriptor_set_layout],
     [call |-> "vkDestroyDescriptorPool", handle |-> pe.descriptor_pool],
     [call |-> "vkDestroyPipelineLayout", handle |-> pe.pipeline_layout],
     [call |-> "vkDestroyPipeline", handle |-> pe.pipeline] >>
  \o (IF pe.descriptor_update_template # VK_NULL_HANDLE
        THEN << [call |-> "vkDestroyDescriptorUpdateTemplateKHR",
                 handle |-> pe.descriptor_update_template] >>
        ELSE << >>)

\* ~VulkanModuleNode, the body of the loop: the calls made for one cached
\* pipeline, each with the handle it is given.
DestroyOrder(pe) ==
  (IF pe.descriptor_update_template # VK_NULL_HANDLE
     THEN << [call |-> "vkDestroyDescriptorUpdateTemplateKHR",
              handle |-> pe.descriptor_update_template] >>
     ELSE << >>)
  \o << [call |-> "vkDestroyPipeline", handle |-> pe.pipeline],
        [call |-> "vkDestroyPipelineLayout", handle |-> pe.pipeline_layout],
        [call |-> "vkDestroyDescriptorPool", handle |-> pe.descriptor_pool],
        [call |-> "vkDestroyDescriptorSetLayout",
         handle |-> pe.descriptor_set_layout],
        [call |-> "vkDestroyShaderModule", handle |-> pe.shader] >>

\* The loop over ecache_[device_id], whose entries come in the order keys;
\* a null entry fails ICHECK(pe) and ends the destructor.
RECURSIVE DestroyCached(_, _, _)
DestroyCached(s, device_id, keys) ==
  IF keys = << >> \/ s.failed THEN s
  ELSE LET pe == ecache_[device_id][Head(keys)]
       IN DestroyCached(
            IF ~pe.valid THEN Fail(s, "ICHECK(pe)")
            ELSE Ev(s, [e |-> "destroy", d |-> device_id,
                        name |-> Head(keys), created |-> CreationOrder(pe),
                        calls |-> DestroyOrder(pe)]),
            device_id, Tail(keys))

\* The loop over the devices, in the order of their ids.
RECURSIVE DestroyCaches(_, _, _)
DestroyCaches(s, device_id, order) ==
  IF device_id \notin Devices THEN s
  ELSE DestroyCaches(DestroyCached(s, device_id, order[device_id]),
                     device_id + 1, order)

\* ~VulkanModuleNode. It runs once nothing refers to the module: no call is
\* in progress and the callables, which hold the module, have been released.
\* An unordered_map gives its entries in an order of its own.
VulkanModuleNodeDestructor ==
  /\ \A t \in Threads : pc[t] = "idle"
  /\ mutex_ = NoThread
  /\ \E c \in Funcs : funcs[c].state # "released"
  /\ \E order \in [Devices -> UNION {Orders(ekeys_[d]) : d \in Devices}] :
       /\ \A d \in Devices : order[d] \in Orders(ekeys_[d])
       /\ \E s \in {DestroyCaches(Env, 0, order)} :
            /\ Commit(s)
            /\ last' = [op |-> "~VulkanModuleNode", ok |-> ~s.failed,
                        cached |-> {<< d, n >> \in Devices \X Names :
                                      n \in ekeys_[d]}]
  /\ ecache_' = [d \in Devices |-> [n \in Names |-> NullPipeline]]
  /\ ekeys_' = [d \in Devices |-> {}]
  /\ funcs' = [c \in Funcs |-> [NoFunc EXCEPT !.state = "released"]]
  /\ UNCHANGED << cfgVars, mutex_, nbuilt, device, pc, call >>

\* operator() once the pipeline is at hand: the descriptor infos, then the
\* immediate or the deferred protocol.
LaunchKernelOp(s, t, f, c) ==
  LET d == c.device_id
      pipeline == f.scache_[d]
      nbytes_scalars == f.num_pack_args_ * SizeofArgUnion64
      ubo == s.uniform_buffers_[t][d]
      descriptor_buffers == DescriptorBuffers(f, pipeline, c.args, ubo)
      \* memcpy(ubo->host_addr, pack_args, nbytes_scalars)
      s0 == Ev(s, [e |-> "descriptor_buffers", infos |-> descriptor_buffers])
      s1 == IF pipeline.use_ubo
              THEN Ev([s0 EXCEPT !.uniform_buffers_[t][d] =
                         HostWrite(@, PackBytes(c.pack_args))],
                      [e |-> "memcpy", to |-> "ubo", size |-> nbytes_scalars])
              ELSE s0
  IN IF pipeline.use_ubo /\ ~GetUniformBufferOk(s, t, d, nbytes_scalars)
       THEN Fail(s, "GetUniformBuffer")
     ELSE IF pipeline.use_ubo /\ ~ubo.host_addr
       THEN Fail(s, "The UBO host buffer is not allocated")
     ELSE IF UseImmediate(d)
       THEN IF pipeline.descriptor_update_template = VK_NULL_HANDLE
              THEN Fail(Launch(Stream(s, t, d), t, d,
                               << [op |-> "vkCmdBindPipeline",
                                   pipeline |-> pipeline.pipeline] >>),
                        "ICHECK(pipeline->descriptor_update_template)")
              ELSE Launch(Stream(s1, t, d), t, d,
                          ImmediateKernel(f, pipeline, c, descriptor_buffers))
       ELSE LaunchDeferred(
              Stream(s1, t, d), t, d,
              DeferredInitializer(pipeline, descriptor_buffers),
              DeferredKernel(f, pipeline, c),
              DeferredToken(pipeline, descriptor_buffers))

LaunchKernel(t) ==
  /\ pc[t] = "launch"
  /\ \E s \in {LaunchKernelOp(Env, t, funcs[call[t].f], call[t])} :
       /\ Commit(s)
       /\ last' = [op |-> "LaunchKernel", ok |-> ~s.failed, t |-> t,
                   call |-> call[t], f |-> funcs[call[t].f]]
  /\ pc' = [pc EXCEPT ![t] = "idle"]
  /\ UNCHANGED << cfgVars, cacheVars, funcs, device, call >>

(***************************************************************************)
(* Actions of the device facade                                            *)
(***************************************************************************)
\* Whether a handler that ends in s has changed the state it began in.
Changed(s) ==
  [s EXCEPT !.events = << >>, !.exec = << >>, !.failed = FALSE] # Env

\* A facade entry point that checks its stream handle and nothing else.
Mutant_CheckStream(s, stream, done) == done

\* ICHECK(stream == nullptr) / ICHECK_EQ(stream, nullptr) at the entry of a
\* facade operation; done is the state the rest of the operation leads to.
CheckStream(s, stream, done) ==
  IF stream = nullptr THEN done ELSE Fail(s, "ICHECK(stream == nullptr)")

Facade(t, s, result) ==
  /\ pc[t] = "idle"
  /\ \E after \in {[s |-> s, result |-> result]} :
       /\ Commit(after.s)
       /\ last' = after.result @@
                    [ok |-> ~after.s.failed, t |-> t,
                     changed |-> Changed(after.s)]
  /\ UNCHANGED << cfgVars, cacheVars, callVars, device >>

AllocDataSpace(t, d, nbytes) ==
  \E ptr \in BufIds :
    /\ ~heap[ptr].alive
    /\ \A q \in BufIds : q < ptr => heap[q].alive
    /\ Facade(t,
         [Ev(Env, [e |-> "CreateBuffer", kind |-> "buf", d |-> d,
                   size |-> AllocSize(nbytes), buf |-> BufHandle(ptr),
                   mem_type_index |-> "compute_mtype_index"])
            EXCEPT !.heap[ptr] =
              [alive |-> TRUE, dev |-> d, size |-> AllocSize(nbytes),
               data |-> Repeat(0, AllocSize(nbytes)),
               requested |-> nbytes]],
         [op |-> "AllocDataSpace", d |-> d, nbytes |-> nbytes, ptr |-> ptr])

\* The caller's side of the contract: the pointer came from AllocDataSpace
\* on this device and no call in progress was handed it.
FreeDataSpace(t, d, ptr) ==
  /\ heap[ptr].alive /\ heap[ptr].dev = d
  /\ \A u \in Threads :
       pc[u] # "idle" => \A i \in 1..Len(call[u].args) : call[u].args[i] # ptr
  /\ Facade(t, FreeDataSpaceOp(Env, t, d, ptr),
            [op |-> "FreeDataSpace", d |-> d, ptr |-> ptr,
             freed |-> heap[ptr]])

\* CreateStream: return nullptr.
CreateStream(t, d) ==
  Facade(t, Env, [op |-> "CreateStream", d |-> d, returned |-> nullptr])

FreeStream(t, d, stream) ==
  Facade(t, CheckStream(Env, stream, Env),
         [op |-> "FreeStream", d |-> d, stream |-> stream])

SyncStreamFromTo(t, d, event_src, event_dst) ==
  Facade(t, CheckStream(Env, event_src, CheckStream(Env, event_dst, Env)),
         [op |-> "SyncStreamFromTo", d |-> d, event_src |-> event_src,
          event_dst |-> event_dst])

SetStream(t, d, stream) ==
  Facade(t, CheckStream(Env, stream, Env),
         [op |-> "SetStream", d |-> d, stream |-> stream])

StreamSync(t, d, stream) ==
  Facade(t, CheckStream(Env, stream, StreamSyncOp(Env, t, d)),
         [op |-> "StreamSync", d |-> d, stream |-> stream])

CopyFromHost(t, bytes, to, to_offset, stream) ==
  /\ heap[to].alive
  /\ to_offset + Len(bytes) <= heap[to].size
  /\ Facade(t, CheckStream(Env, stream,
                           CopyHostToDevice(Env, t, bytes, to, to_offset,
                                            heap[to].dev)),
            [op |-> "CopyHostToDevice", d |-> heap[to].dev, ptr |-> to,
             offset |-> to_offset, size |-> Len(bytes), bytes |-> bytes,
             stream |-> stream])

CopyToHost(t, from, from_offset, size, stream) ==
  /\ heap[from].alive
  /\ from_offset + size <= heap[from].size
  /\ \E s \in {CheckStream(Env, stream,
                            CopyDeviceToHost(Env, t, from, from_offset, size,
                                             heap[from].dev))} :
       Facade(t, s,
               [op |-> "CopyDeviceToHost", d |-> heap[from].dev,
                ptr |-> from, offset |-> from_offset, size |-> size,
                stream |-> stream,
                bytes |-> IF s.failed THEN << >>
                          ELSE HostReceived(s, t, size, heap[from].dev),
                after |-> IF last.op = "CopyHostToDevice" THEN last
                          ELSE [op |-> last.op]])

CopyOnDevice(t, from, from_offset, to, to_offset, size, stream) ==
  /\ heap[from].alive /\ heap[to].alive
  /\ from_offset + size <= heap[from].size
  /\ to_offset + size <= heap[to].size
  /\ Facade(t, CheckStream(Env, stream,
                           CopyDeviceToDevice(Env, t, from, from_offset, to,
                                              to_offset, size, heap[from].dev,
                                              heap[to].dev)),
            [op |-> "CopyDeviceToDevice", d |-> heap[from].dev,
             dev_to |-> heap[to].dev, ptr |-> from, to |-> to,
             size |-> size, stream |-> stream])

(***************************************************************************)
(* Specifications                                                          *)
(***************************************************************************)
\* The kernels and copies thread t has recorded and not yet submitted.
PendingOf(t) ==
  Pending(streams_[t][0].cmd_buffer_ \o streams_[t][1].cmd_buffer_)

\* Two threads race through operator() on one module with two kernels;
\* device 0 has the push descriptor functions, device 1 has not.
InitPipe ==
  InitWith({c \in [Devices -> Contexts] :
              \A d \in Devices :
                /\ c[d].descriptor_template_khr_functions = (d = 0)
                /\ c[d].coherent_staging
                /\ c[d].maxPushConstantsSize = SizeofArgUnion64},
           {[n \in Names |-> IF n = "f" THEN << kPOD >> ELSE << >>]},
           {[n \in Names |-> [flag |-> {}]]})

NextPipe ==
  \/ \E c \in Funcs, n \in Names : GetFunction(c, n)
  \/ \E t \in Threads, d \in Devices : SetDevice(t, d)
  \/ \E t \in Threads, c \in Funcs :
       /\ PendingOf(t) < MaxPipePending
       /\ CallBegin(t, c, << >>, 1, 1)
  \/ \E t \in Threads : GetPipelineLookup(t)
  \/ \E t \in Threads : GetPipelineBuild(t)
  \/ \E t \in Threads : LaunchKernel(t)

SpecPipe == InitPipe /\ [][NextPipe]_vars

\* C1: whatever the threads do, each (device, kernel name) pipeline is built
\* at most once, a pipeline in the cache was built exactly once, and a
\* GetPipeline call that finds the pair in the cache returns that very
\* pipeline object and creates no Vulkan object.
C1_BuiltOnce ==
  /\ \A d \in Devices, n \in Names :
        /\ nbuilt[d][n] <= 1
        /\ ecache_[d][n].valid <=> nbuilt[d][n] = 1
        /\ ecache_[d][n].valid => ecache_[d][n].serial = 1
  /\ last.op = "GetPipeline" /\ last.hit =>
        /\ last.pipeline = ecache_[last.d][last.name]
        /\ nbuilt[last.d][last.name] = 1
        /\ events = << >>
  /\ \A c \in Funcs, d \in Devices :
        funcs[c].scache_[d].valid =>
          funcs[c].scache_[d] = ecache_[d][funcs[c].func_name_]

\* Two threads were inside operator() for the same pair at once: one built
\* the pipeline, the other then found it in the cache.
C1_Witness ==
  /\ last.op = "GetPipeline" /\ last.hit
  /\ \E u \in Threads \ {last.t} :
        /\ pc[u] = "launch"
        /\ call[u].device_id = last.d
        /\ funcs[call[u].f].func_name_ = last.name

\* C2: a stored pipeline has an update template exactly when its device
\* uses the immediate protocol, and a descriptor pool and a descriptor set
\* exactly when it does not.
C2_TemplateXorPool ==
  \A d \in Devices, n \in Names :
    ecache_[d][n].valid =>
      /\ ecache_[d][n].descriptor_update_template # VK_NULL_HANDLE
            <=> UseImmediate(d)
      /\ ecache_[d][n].descriptor_pool # VK_NULL_HANDLE <=> ~UseImmediate(d)
      /\ ecache_[d][n].descriptor_set # VK_NULL_HANDLE <=> ~UseImmediate(d)

\* Pipelines are stored for a device of either protocol.
C2_Witness ==
  \E d, e \in Devices, n \in Names :
    /\ UseImmediate(d) /\ ~UseImmediate(e)
    /\ ecache_[d][n].valid /\ ecache_[e][n].valid

(***************************************************************************)
(* One thread calls one kernel whose argument list, shader flag and push   *)
(* constant limit range over every case.                                   *)
(***************************************************************************)
InitCall ==
  InitWith({c \in [Devices -> Contexts] :
              /\ \A d \in Devices :
                   /\ c[d].descriptor_template_khr_functions = (d = 0)
                   /\ c[d].coherent_staging
              /\ c[0].maxPushConstantsSize = c[1].maxPushConstantsSize},
           {[n \in Names |-> a] : a \in ArgTypeSeqs},
           {[n \in Names |-> [flag |-> fl]] : fl \in ShaderFlags})

\* The calls made: every buffer argument is the same buffer.
CallArgs == UNION {{[i \in 1..k |-> b] : b \in BufIds} : k \in 0..MaxArgs}

NextCall ==
  \/ \E d \in Devices : AllocDataSpace("t1", d, 1)
  \/ GetFunction("c1", "f")
  \/ \E d \in Devices : SetDevice("t1", d)
  \/ \E args \in CallArgs :
       /\ PendingOf("t1") < MaxCallPending
       /\ CallBegin("t1", "c1", args, 1, 1)
  \/ GetPipelineLookup("t1")
  \/ GetPipelineBuild("t1")
  \/ LaunchKernel("t1")
  \/ \E d \in Devices : StreamSync("t1", d, nullptr)

SpecCall == InitCall /\ [][NextCall]_vars

\* The handle arguments and the scalar arguments of a kernel, counted from
\* its argument types.
NumBuffer(name) == SeqCount(fmap_[name], kTVMOpaqueHandle)
NumPack(name) == Len(fmap_[name]) - NumBuffer(name)

\* The events of the step just taken that are e-events.
EventsOf(e) == SelectSeq(events, LAMBDA x : x.e = e)

\* The commands op the step just taken recorded.
Recorded(op) ==
  LET launches == SelectSeq(events,
                            LAMBDA x : x.e \in {"Launch", "LaunchDeferred"})
  IN IF launches = << >> THEN << >>
     ELSE SelectSeq(launches[1].cmds, LAMBDA c : c.op = op)

\* C3: a kernel call assembles num_buffer + (use_ubo ? 1 : 0) descriptor
\* buffer infos, as many as the descriptor set layout of its pipeline has
\* bindings; in deferred mode the token holds as many buffer handles and the
\* initializer issues as many descriptor writes.
C3_DescriptorCount ==
  last.op = "LaunchKernel" /\ last.ok =>
    LET name == last.f.func_name_
        d == last.call.device_id
        pipeline == ecache_[d][name]
        n == NumBuffer(name) + (IF ShaderUsesUBO(name) THEN 1 ELSE 0)
    IN /\ Len(EventsOf("descriptor_buffers")) = 1
       /\ Len(EventsOf("descriptor_buffers")[1].infos) = n
       /\ Len(pipeline.descriptor_set_layout.bindings) = n
       /\ UseImmediate(d) =>
            /\ Len(Recorded("vkCmdPushDescriptorSetWithTemplateKHR")) = 1
            /\ Len(Recorded("vkCmdPushDescriptorSetWithTemplateKHR")[1].infos)
                 = n
            /\ Len(pipeline.descriptor_update_template.entries) = n
       /\ ~UseImmediate(d) =>
            /\ Len(EventsOf("LaunchDeferred")) = 1
            /\ Len(EventsOf("LaunchDeferred")[1].token.buffers_) = n
            /\ \A i \in 1..Len(EventsOf("vkUpdateDescriptorSets")) :
                 Len(EventsOf("vkUpdateDescriptorSets")[i].writes) = n

\* A UBO kernel with buffer arguments has been launched in deferred mode.
C3_Witness ==
  /\ last.op = "LaunchKernel" /\ last.ok
  /\ ~UseImmediate(last.call.device_id)
  /\ ShaderUsesUBO(last.f.func_name_)
  /\ NumBuffer(last.f.func_name_) = 2
  /\ EventsOf("vkUpdateDescriptorSets") # << >>

(***************************************************************************)
(* The bindings of a pipeline and the descriptors written to them          *)
(***************************************************************************)
\* Calls whose buffer arguments are different buffers, in two orders.
BindingArgs ==
  {[i \in 1..k |-> 1 + ((i + r) % MaxBufs)] : k \in 0..MaxArgs, r \in 0..1}

NextBindings ==
  \/ \E d \in Devices : AllocDataSpace("t1", d, 1)
  \/ GetFunction("c1", "f")
  \/ \E d \in Devices : SetDevice("t1", d)
  \/ \E args \in BindingArgs :
       /\ PendingOf("t1") < MaxCallPending
       /\ CallBegin("t1", "c1", args, 1, 1)
  \/ GetPipelineLookup("t1")
  \/ GetPipelineBuild("t1")
  \/ LaunchKernel("t1")
  \/ \E d \in Devices : StreamSync("t1", d, nullptr)

SpecBindings == InitCall /\ [][NextBindings]_vars

\* The descriptor type of binding i - 1 of a kernel: storage buffers for
\* its buffer arguments, then the uniform block if the shader uses one.
BindingType(name, i) ==
  IF i <= NumBuffer(name) THEN VK_DESCRIPTOR_TYPE_STORAGE_BUFFER
  ELSE VK_DESCRIPTOR_TYPE_UNIFORM_BUFFER

\* C30: the descriptor set layout of every built pipeline has bindings
\* 0..num_buffer-1 of type storage buffer, followed by binding num_buffer
\* of type uniform buffer exactly when the shader uses a uniform block;
\* the update template of an immediate pipeline has one entry per binding,
\* for that binding and type, at offset binding *
\* sizeof(VkDescriptorBufferInfo); a launch passes the i-th buffer argument
\* for binding i, and the deferred initializer writes descriptor i to
\* binding i with the type the layout has for it.
C30_BindingLayout ==
  /\ \A d \in Devices, name \in Names :
       ecache_[d][name].valid =>
         LET pipeline == ecache_[d][name]
             bindings == pipeline.descriptor_set_layout.bindings
         IN /\ pipeline.use_ubo = ShaderUsesUBO(name)
            /\ Len(bindings) =
                 NumBuffer(name) + (IF pipeline.use_ubo THEN 1 ELSE 0)
            /\ \A i \in DOMAIN bindings :
                 /\ bindings[i].binding = i - 1
                 /\ bindings[i].descriptorCount = 1
                 /\ bindings[i].descriptorType = BindingType(name, i)
            /\ UseImmediate(d) =>
                 LET entries == pipeline.descriptor_update_template.entries
                 IN /\ DOMAIN entries = DOMAIN bindings
                    /\ \A i \in DOMAIN entries :
                         /\ entries[i].dstBinding = i - 1
                         /\ entries[i].dstArrayElement = 0
                         /\ entries[i].descriptorCount = 1
                         /\ entries[i].descriptorType =
                              bindings[i].descriptorType
                         /\ entries[i].offset =
                              (i - 1) * SizeofVkDescriptorBufferInfo
                         /\ entries[i].stride = SizeofVkDescriptorBufferInfo
  /\ (last.op = "LaunchKernel" /\ last.ok) =>
       LET name == last.f.func_name_
           d == last.call.device_id
           bindings == ecache_[d][name].descriptor_set_layout.bindings
           infos == EventsOf("descriptor_buffers")[1].infos
           inits == EventsOf("vkUpdateDescriptorSets")
       IN /\ DOMAIN infos = DOMAIN bindings
          /\ \A i \in 1..NumBuffer(name) :
               infos[i].buffer = BufHandle(last.call.args[i])
          /\ ShaderUsesUBO(name) =>
               infos[Len(infos)].buffer =
                 uniform_buffers_[last.t][d].vk_buf
          /\ UseImmediate(d) =>
               /\ inits = << >>
               /\ Recorded("vkCmdPushDescriptorSetWithTemplateKHR")[1].infos
                    = infos
          /\ \A k \in DOMAIN inits :
               /\ DOMAIN inits[k].writes = DOMAIN bindings
               /\ \A i \in DOMAIN inits[k].writes :
                    /\ inits[k].writes[i].dstBinding = bindings[i].binding
                    /\ inits[k].writes[i].descriptorType =
                         bindings[i].descriptorType
                    /\ inits[k].writes[i].descriptorCount = 1
                    /\ inits[k].writes[i].buffer = infos[i].buffer

\* A deferred launch of a kernel with two different buffers and a uniform
\* block has run the initializer.
C30_Witness ==
  /\ last.op = "LaunchKernel" /\ last.ok
  /\ ~UseImmediate(last.call.device_id)
  /\ ShaderUsesUBO(last.f.func_name_)
  /\ NumBuffer(last.f.func_name_) = 2
  /\ last.call.args[1] # last.call.args[2]
  /\ EventsOf("vkUpdateDescriptorSets") # << >>
  /\ Len(ecache_[last.call.device_id][last.f.func_name_].descriptor_set_layout.bindings) = 3

\* C4: the pipeline layout of a called kernel declares, and the call
\* records, num_pack * 8 bytes of push constants when the pipeline is not in
\* UBO mode; in UBO mode no range is declared and vkCmdPushConstants is not
\* recorded. This holds in either protocol.
C4_PushConstantBytes ==
  last.op = "LaunchKernel" /\ last.ok =>
    LET name == last.f.func_name_
        pipeline == ecache_[last.call.device_id][name]
        layout == pipeline.pipeline_layout
        pushed == Recorded("vkCmdPushConstants")
        bytes == IF pushed = << >> THEN 0 ELSE pushed[1].size
    IN /\ Len(pushed) <= 1
       /\ pushed # << >> => Len(pushed[1].values) = pushed[1].size
       /\ IF ShaderUsesUBO(name)
            THEN /\ pushed = << >>
                 /\ layout.pushConstantRangeCount = 0 /\ layout.size = 0
            ELSE /\ bytes = NumPack(name) * SizeofArgUnion64
                 /\ layout.size = NumPack(name) * SizeofArgUnion64
                 /\ layout.pushConstantRangeCount
                      = (IF NumPack(name) > 0 THEN 1 ELSE 0)

\* Kernels with scalars have been launched in push constant mode.
C4_Witness ==
  /\ last.op = "LaunchKernel" /\ last.ok
  /\ ~ShaderUsesUBO(last.f.func_name_)
  /\ NumPack(last.f.func_name_) = 2
  /\ ~UseImmediate(last.call.device_id)
  /\ Recorded("vkCmdPushConstants") # << >>

\* C14: a kernel with kUseUBO and no scalar argument builds: its layout has
\* the uniform buffer binding at index num_buffer, after its storage buffer
\* bindings, and the thread's UBO cache has an entry for the device, of the
\* zero bytes asked for or more; a launch of the kernel then passes the
\* checks of GetUniformBuffer and records its commands.
C14_EmptyUboBuilds ==
  /\ (/\ last.op = "GetPipelineBuild"
      /\ ShaderUsesUBO(last.name) /\ NumPack(last.name) = 0) =>
       LET bindings == last.pipeline.descriptor_set_layout.bindings
           ubo == uniform_buffers_[last.t][last.d]
       IN /\ last.ok /\ last.pipeline.use_ubo
          /\ ecache_[last.d][last.name] = last.pipeline
          /\ Len(bindings) = NumBuffer(last.name) + 1
          /\ bindings[NumBuffer(last.name) + 1] =
               [binding |-> NumBuffer(last.name),
                descriptorType |-> VK_DESCRIPTOR_TYPE_UNIFORM_BUFFER,
                descriptorCount |-> 1]
          /\ ubo.present /\ ubo.device_set /\ ubo.host_addr /\ ~ubo.destroyed
          /\ ubo.size >= 0
  /\ (/\ last.op = "LaunchKernel"
      /\ ShaderUsesUBO(last.f.func_name_)
      /\ NumPack(last.f.func_name_) = 0) =>
       LET ubo == uniform_buffers_[last.t][last.call.device_id]
       IN /\ last.ok /\ EventsOf("FATAL") = << >>
          /\ ubo.present /\ ubo.size >= 0
          /\ Len(Recorded("vkCmdDispatch")) = 1
          /\ EventsOf("descriptor_buffers")[1].infos[NumBuffer(last.f.func_name_) + 1]
               = BufferInfo(ubo.vk_buf)

\* A kernel with buffers, kUseUBO and no scalar has been launched with a
\* uniform buffer of zero bytes.
C14_Witness ==
  /\ last.op = "LaunchKernel" /\ last.ok
  /\ ShaderUsesUBO(last.f.func_name_)
  /\ NumPack(last.f.func_name_) = 0 /\ NumBuffer(last.f.func_name_) > 0
  /\ uniform_buffers_[last.t][last.call.device_id].size = 0

(***************************************************************************)
(* One thread looks names up in a module that has the kernel f alone and   *)
(* launches what it gets.                                                  *)
(***************************************************************************)
InitLookup ==
  InitWith({c \in [Devices -> Contexts] :
              \A d \in Devices :
                /\ c[d].descriptor_template_khr_functions = (d = 0)
                /\ c[d].coherent_staging
                /\ c[d].maxPushConstantsSize = SizeofArgUnion64},
           {[n \in {"f"} |-> << >>]},
           {[n \in {"f"} |-> [flag |-> {}]]})

NextLookup ==
  \/ \E c \in Funcs, n \in Names \cup {tvm_module_main} : GetFunction(c, n)
  \/ \E d \in Devices : SetDevice("t1", d)
  \/ \E c \in Funcs :
       /\ PendingOf("t1") < MaxModulePending
       /\ CallBegin("t1", c, << >>, 1, 1)
  \/ GetPipelineLookup("t1")
  \/ GetPipelineBuild("t1")
  \/ LaunchKernel("t1")
  \/ \E d \in Devices : StreamSync("t1", d, nullptr)

SpecLookup == InitLookup /\ [][NextLookup]_vars

\* C17: GetFunction of a name that the function table lacks and that is not
\* the reserved name of the main function succeeds without an error, returns
\* the empty callable and leaves the pipeline cache as it was.
C17_MissReturnsEmpty ==
  (/\ last.op = "GetFunction"
   /\ last.name \notin DOMAIN fmap_
   /\ last.name # tvm_module_main) =>
    /\ last.ok /\ events = << >>
    /\ funcs[last.c].state = "empty"
    /\ ecache_ = last.ecache_ /\ ekeys_ = last.ekeys_

\* A name the table lacks has been looked up while the cache held a pipeline.
C17_Witness ==
  /\ last.op = "GetFunction"
  /\ last.name \notin DOMAIN fmap_
  /\ last.name # tvm_module_main
  /\ funcs[last.c].state = "empty"
  /\ \E d \in Devices : ekeys_[d] # {}

\* C17 as stated, for every name the function table lacks: the lookup
\* succeeds without an error and returns the empty callable, the pipeline
\* cache unchanged.
C17_AnyMissReturnsEmpty ==
  (last.op = "GetFunction" /\ last.name \notin DOMAIN fmap_) =>
    /\ last.ok /\ events = << >>
    /\ funcs[last.c].state = "empty"
    /\ ecache_ = last.ecache_ /\ ekeys_ = last.ekeys_

(***************************************************************************)
(* One thread uses a module with two kernels on two devices, one of each   *)
(* protocol, and the module is destroyed in the end.                       *)
(***************************************************************************)
NextModule ==
  \/ \E c \in Funcs, n \in Names :
       (c = "c1") = (n = "f") /\ GetFunction(c, n)
  \/ \E d \in Devices : SetDevice("t1", d)
  \/ \E c \in Funcs :
       /\ PendingOf("t1") < MaxModulePending
       /\ CallBegin("t1", c, << >>, 1, 1)
  \/ GetPipelineLookup("t1")
  \/ GetPipelineBuild("t1")
  \/ LaunchKernel("t1")
  \/ \E d \in Devices : StreamSync("t1", d, nullptr)
  \/ VulkanModuleNodeDestructor

SpecModule == InitPipe /\ [][NextModule]_vars

\* The call that destroys what a call of GetPipeline has created.
DestroyCallOf ==
  [c \in {"vkCreateShaderModule", "vkCreateDescriptorSetLayout",
          "vkCreateDescriptorPool", "vkCreatePipelineLayout",
          "vkCreateComputePipelines", "vkCreateDescriptorUpdateTemplateKHR"}
     |-> CASE c = "vkCreateShaderModule" -> "vkDestroyShaderModule"
           [] c = "vkCreateDescriptorSetLayout" -> "vkDestroyDescriptorSetLayout"
           [] c = "vkCreateDescriptorPool" -> "vkDestroyDescriptorPool"
           [] c = "vkCreatePipelineLayout" -> "vkDestroyPipelineLayout"
           [] c = "vkCreateComputePipelines" -> "vkDestroyPipeline"
           [] OTHER -> "vkDestroyDescriptorUpdateTemplateKHR"]

\* C15: the destructor of a module makes, for every pipeline in its caches
\* and for no other, the destroy calls in the order update template,
\* pipeline, pipeline layout, descriptor pool, descriptor set layout, shader
\* module; the objects it destroys (the calls given a handle that is not
\* null) are the objects GetPipeline created, in the reverse order of their
\* creation.
C15_ReverseTeardown ==
  last.op = "~VulkanModuleNode" =>
    /\ last.ok
    /\ \A i \in 1..Len(events) : events[i].e = "destroy"
    /\ {<< events[i].d, events[i].name >> : i \in 1..Len(events)} = last.cached
    /\ Len(events) = Cardinality(last.cached)
    /\ \A i \in 1..Len(events) :
         LET calls == events[i].calls
             objects == SelectSeq(calls, LAMBDA x : x.handle # VK_NULL_HANDLE)
             made == SelectSeq(events[i].created,
                               LAMBDA c : c \in DOMAIN DestroyCallOf)
             Rank(c) ==
               CHOOSE k \in 1..6 :
                 << "vkDestroyDescriptorUpdateTemplateKHR",
                    "vkDestroyPipeline", "vkDestroyPipelineLayout",
                    "vkDestroyDescriptorPool", "vkDestroyDescriptorSetLayout",
                    "vkDestroyShaderModule" >>[k] = c
         IN /\ \A j, k \in 1..Len(calls) :
                 j < k => Rank(calls[j].call) < Rank(calls[k].call)
            /\ [j \in 1..Len(objects) |-> objects[j].call] =
                 Reverse([j \in 1..Len(made) |-> DestroyCallOf[made[j]]])

\* A module with pipelines of both protocols in its caches has been
\* destroyed.
C15_Witness ==
  /\ last.op = "~VulkanModuleNode" /\ last.ok
  /\ \E i, j \in 1..Len(events) :
       /\ events[i].d = 0 /\ events[j].d = 1
       /\ Len(events[i].calls) = 6 /\ Len(events[j].calls) = 5
  /\ Len(events) >= 3

(***************************************************************************)
(* One thread builds pipelines of a module whose kernel g has no shader;   *)
(* any Vulkan call of a construction may fail; the module is destroyed in  *)
(* the end.                                                                *)
(***************************************************************************)
\* The Vulkan calls of a pipeline construction.
VulkanCreateCalls ==
  {"vkCreateShaderModule", "vkCreateDescriptorSetLayout",
   "vkCreateDescriptorPool", "vkAllocateDescriptorSets",
   "vkCreatePipelineLayout", "vkCreateComputePipelines",
   "vkCreateDescriptorUpdateTemplateKHR"}

InitBuild ==
  InitWith({c \in [Devices -> Contexts] :
              \A d \in Devices :
                /\ c[d].descriptor_template_khr_functions = (d = 0)
                /\ c[d].coherent_staging
                /\ c[d].maxPushConstantsSize = SizeofArgUnion64},
           {[n \in Names |-> Repeat(kPOD, np)] : np \in 0..MaxArgs},
           {[n \in {"f"} |-> [flag |-> fl]] : fl \in ShaderFlags})

NextBuild ==
  \/ \E c \in Funcs, n \in Names :
       (c = "c1") = (n = "f") /\ GetFunction(c, n)
  \/ \E d \in Devices : SetDevice("t1", d)
  \/ \E c \in Funcs :
       /\ PendingOf("t1") < MaxModulePending
       /\ CallBegin("t1", c, << >>, 1, 1)
  \/ GetPipelineLookup("t1")
  \/ \E failing \in VulkanCreateCalls \cup {"none"} :
       GetPipelineConstruct("t1", failing)
  \/ LaunchKernel("t1")
  \/ \E d \in Devices : StreamSync("t1", d, nullptr)
  \/ VulkanModuleNodeDestructor

SpecBuild == InitBuild /\ [][NextBuild]_vars

\* The destroy calls the step just taken made for objects of a
\* construction it abandoned: the code has none.
AbandonedDestroys == EventsOf("vkDestroy")

\* C32: when a construction stops with an error, the objects it had
\* created have been destroyed, the last created first.
C32_FailedBuildCleansUp ==
  (last.op = "GetPipelineBuild" /\ ~last.ok) =>
    \A i \in DOMAIN events :
      events[i].e = "abandoned" =>
        LET made == SelectSeq(events[i].created,
                              LAMBDA c : c \in DOMAIN DestroyCallOf)
        IN [k \in DOMAIN AbandonedDestroys |-> AbandonedDestroys[k].call]
             = [k \in DOMAIN made |-> DestroyCallOf[Reverse(made)[k]]]

\* The fatal errors of the step just taken.
Fatal == {events[i].what : i \in {k \in DOMAIN events : events[k].e = "FATAL"}}

\* C33: a construction for a kernel with scalars and no uniform block
\* fails the assertion when num_pod * 8 exceeds maxPushConstantsSize, and
\* otherwise declares one push constant range of num_pod * 8 bytes; a
\* kernel with a uniform block or without scalars gets no range, never
\* fails the assertion, and its construction stops only when a Vulkan call
\* fails.
C33_PushConstantLimit ==
  (last.op = "GetPipelineBuild" /\ last.name \in DOMAIN smap_) =>
    LET nbytes_scalars == NumPack(last.name) * SizeofArgUnion64
        limit == context_[last.d].maxPushConstantsSize
        pushes == nbytes_scalars > 0 /\ ~ShaderUsesUBO(last.name)
        layout == ecache_[last.d][last.name].pipeline_layout
    IN /\ (pushes /\ nbytes_scalars > limit) =>
            /\ ~last.ok
            /\ Fatal \subseteq {"VULKAN_CALL",
                                "ICHECK_LE(crange.size, maxPushConstantsSize)"}
            /\ ~ecache_[last.d][last.name].valid
       /\ (pushes /\ last.ok) =>
            /\ layout.pushConstantRangeCount = 1
            /\ layout.size = nbytes_scalars
            /\ nbytes_scalars <= limit
       /\ ~pushes =>
            /\ Fatal \subseteq {"VULKAN_CALL"}
            /\ last.ok => layout.pushConstantRangeCount = 0

\* The assertion has stopped the construction for a kernel whose scalars
\* exceed the limit.
C33_Witness ==
  /\ last.op = "GetPipelineBuild" /\ ~last.ok
  /\ Fatal = {"ICHECK_LE(crange.size, maxPushConstantsSize)"}
  /\ NumPack(last.name) * SizeofArgUnion64
       > context_[last.d].maxPushConstantsSize

\* C40: while no thread is inside GetPipeline every entry of the pipeline
\* caches is a constructed pipeline, and the destructor of the module
\* finds it so.
C40_CachedPipelinesValid ==
  /\ mutex_ = NoThread =>
       \A d \in Devices : \A n \in ekeys_[d] : ecache_[d][n].valid
  /\ last.op = "~VulkanModuleNode" => last.ok

(***************************************************************************)
(* Two threads share the buffers of one device: both launch a kernel on    *)
(* them, the first also copies between them and frees them.                *)
(***************************************************************************)
InitFree ==
  InitWith({c \in [Devices -> Contexts] :
              \A d \in Devices :
                /\ c[d].descriptor_template_khr_functions = (d = 0)
                /\ c[d].coherent_staging
                /\ c[d].maxPushConstantsSize = SizeofArgUnion64},
           {[n \in Names |-> << kTVMOpaqueHandle >>]},
           {[n \in Names |-> [flag |-> {}]]})

NextFree ==
  \/ AllocDataSpace("t1", 0, 1)
  \/ GetFunction("c1", "f")
  \/ \E t \in Threads, b \in BufIds :
       /\ PendingOf(t) < MaxFreePending
       /\ CallBegin(t, "c1", << b >>, 1, 1)
  \/ \E t \in Threads : GetPipelineLookup(t)
  \/ \E t \in Threads : GetPipelineBuild(t)
  \/ \E t \in Threads : LaunchKernel(t)
  \/ \E from, to \in BufIds :
       /\ PendingOf("t1") < MaxFreePending
       /\ CopyOnDevice("t1", from, 0, to, 0, 1, nullptr)
  \/ \E t \in Threads : StreamSync(t, 0, nullptr)
  \/ \E ptr \in BufIds : FreeDataSpace("t1", 0, ptr)

SpecFree == InitFree /\ [][NextFree]_vars

\* C5: FreeDataSpace synchronizes the calling thread's Stream on the device
\* and only then destroys the buffer: when the buffer is destroyed, that
\* Stream holds no recorded command, so none that refers to the buffer.
C5_SyncThenDestroy ==
  last.op = "FreeDataSpace" =>
    /\ Len(events) = 2
    /\ events[1].e = "Synchronize"
    /\ events[1].t = last.t /\ events[1].d = last.d
    /\ events[2].e = "vkDestroyBuffer"
    /\ events[2].ptr = last.ptr
    /\ last.t \notin events[2].referenced_by
    /\ streams_[last.t][last.d].cmd_buffer_ = << >>
    /\ ~heap[last.ptr].alive

\* The synchronize of a FreeDataSpace submitted a kernel and a copy of the
\* calling thread that refer to the buffer being freed.
C5_Witness ==
  /\ last.op = "FreeDataSpace"
  /\ events[1].e = "Synchronize"
  /\ events[1].submitted >= 1
  /\ \E i \in 1..Len(events[1].exec) :
        BufHandle(last.ptr) \in Range(events[1].exec[i].args)

\* C6: no buffer is destroyed while a command that refers to it is recorded
\* on a Stream of its device, whichever thread the Stream belongs to.
C6_NoStreamRefersToDestroyed ==
  last.op = "FreeDataSpace" =>
    \A i \in 1..Len(events) :
      events[i].e = "vkDestroyBuffer" => events[i].referenced_by = {}

(***************************************************************************)
(* One thread launches two UBO kernels, one with one scalar and one with   *)
(* two; the device uses either protocol. In SpecUbo the thread also copies *)
(* to a device buffer, in SpecScalars its launches differ in the scalars.  *)
(***************************************************************************)
InitUbo ==
  InitWith({c \in [Devices -> Contexts] :
              /\ c[1].descriptor_template_khr_functions
              /\ \A d \in Devices :
                   /\ c[d].coherent_staging
                   /\ c[d].maxPushConstantsSize = SizeofArgUnion64},
           {[n \in Names |-> IF n = "f" THEN << kPOD >> ELSE << kPOD, kPOD >>]},
           {[n \in Names |-> [flag |-> {"kUseUBO"}]]})

NextUbo ==
  \/ ~heap[1].alive /\ AllocDataSpace("t1", 0, MaxSize)
  \/ \E c \in Funcs, n \in Names :
       (c = "c1") = (n = "f") /\ GetFunction(c, n)
  \/ \E c \in Funcs :
       /\ PendingOf("t1") < MaxUboPending
       /\ CallBegin("t1", c, << >>, 1, 1)
  \/ GetPipelineLookup("t1")
  \/ GetPipelineBuild("t1")
  \/ LaunchKernel("t1")
  \/ \E k \in 0..MaxSize :
       CopyFromHost("t1", Repeat(1, k), 1, 0, nullptr)
  \/ StreamSync("t1", 0, nullptr)

SpecUbo == InitUbo /\ [][NextUbo]_vars

\* C26: a request to the staging or the uniform buffer cache leaves the
\* entry of its thread and device with a live, mapped buffer of at least the
\* size asked for and at least the size it had; an entry that was large
\* enough keeps its buffer and nothing is created or deleted, and any other
\* request leaves a buffer of the size asked for.
C26_CacheEntryFits ==
  \A i \in DOMAIN events :
    events[i].e = "GetOrAllocate" =>
      LET r == events[i]
          b == IF r.kind = "staging" THEN staging_buffers_[r.t][r.d]
               ELSE uniform_buffers_[r.t][r.d]
          touched == {j \in DOMAIN events :
                        /\ events[j].e \in {"CreateBuffer", "DeleteHostVisibleBuffer"}
                        /\ events[j].kind = r.kind}
      IN /\ b.present /\ b.host_addr /\ ~b.destroyed
         /\ b.size >= r.size /\ b.size >= r.old_size
         /\ Len(b.host_mem) = b.size
         /\ IF r.had /\ r.size <= r.old_size
              THEN touched = {} /\ b.size = r.old_size /\ b.gen = r.old_gen
              ELSE b.size = r.size /\ b.gen = r.old_gen + 1

\* The uniform buffer of the thread has grown for a kernel with more
\* scalars, after the staging buffer had served a copy.
C26_Witness ==
  /\ \E i \in DOMAIN events :
       /\ events[i].e = "GetOrAllocate" /\ events[i].kind = "ubo"
       /\ events[i].had /\ events[i].size > events[i].old_size
  /\ staging_buffers_["t1"][0].size = MaxSize

NextScalars ==
  \/ \E c \in Funcs, n \in Names :
       (c = "c1") = (n = "f") /\ GetFunction(c, n)
  \/ \E c \in Funcs, v \in Scalars :
       /\ PendingOf("t1") < MaxPending
       /\ CallBegin("t1", c, << >>, v, 1)
  \/ GetPipelineLookup("t1")
  \/ GetPipelineBuild("t1")
  \/ LaunchKernel("t1")
  \/ StreamSync("t1", 0, nullptr)

SpecScalars == InitUbo /\ [][NextScalars]_vars

\* The events of request i to a buffer cache, up to its return.
RequestEvents(i) ==
  LET j == CHOOSE j \in (i + 1)..Len(events) :
             /\ events[j].e = "return"
             /\ \A k \in (i + 1)..(j - 1) : events[k].e # "return"
  IN SubSeq(events, i + 1, j - 1)

\* C8: a request that grows the UBO cache synchronizes the calling thread's
\* Stream on the device exactly once, before the old buffer is deleted; a
\* request that grows the staging cache deletes the old buffer and creates
\* the new one without a synchronize; a request that finds no entry or a
\* large enough one synchronizes in neither cache.
C8_SyncOnlyWhenUboGrows ==
  \A i \in 1..Len(events) :
    events[i].e = "GetOrAllocate" =>
      LET seg == RequestEvents(i)
          did == [k \in 1..Len(seg) |-> seg[k].e]
          grow == events[i].had /\ events[i].old_size < events[i].size
      IN IF grow /\ events[i].kind = "ubo"
           THEN /\ did = << "Synchronize", "DeleteHostVisibleBuffer",
                            "CreateBuffer" >>
                /\ seg[1].t = last.t /\ seg[1].d = events[i].d
         ELSE IF grow
           THEN did = << "DeleteHostVisibleBuffer", "CreateBuffer" >>
         ELSE IF events[i].had THEN did = << >>
         ELSE did = << "CreateBuffer" >>

\* The UBO cache grows while a dispatch of the thread is pending, on a
\* thread whose staging cache has grown before.
C8_Witness ==
  /\ last.op = "GetPipelineBuild"
  /\ staging_buffers_[last.t][last.d].gen >= 2
  /\ \E i \in 1..Len(events) :
        /\ events[i].e = "GetOrAllocate" /\ events[i].kind = "ubo"
        /\ events[i].had /\ events[i].old_size < events[i].size
        /\ RequestEvents(i)[1].e = "Synchronize"
        /\ RequestEvents(i)[1].submitted >= 1

\* C9: every dispatch of a UBO kernel finds the scalars of its own launch
\* in the uniform block when it executes.
C9_DispatchSeesOwnScalars ==
  \A i \in 1..Len(events) :
    events[i].e = "Synchronize" =>
      \A j \in 1..Len(events[i].exec) :
        events[i].exec[j].use_ubo =>
          events[i].exec[j].ubo = events[i].exec[j].pack_args

(***************************************************************************)
(* One thread launches two kernels, each on either of the buffers, on a    *)
(* device without push descriptors.                                        *)
(***************************************************************************)
InitDeferred ==
  InitWith({c \in [Devices -> Contexts] :
              \A d \in Devices :
                /\ ~c[d].descriptor_template_khr_functions
                /\ c[d].coherent_staging
                /\ c[d].maxPushConstantsSize = SizeofArgUnion64},
           {[n \in Names |-> << kTVMOpaqueHandle >>]},
           {[n \in Names |-> [flag |-> {}]]})

NextDeferred ==
  \/ AllocDataSpace("t1", 0, 1)
  \/ \E c \in Funcs, n \in Names :
       (c = "c1") = (n = "f") /\ GetFunction(c, n)
  \/ \E c \in Funcs, b \in BufIds :
       /\ PendingOf("t1") < MaxDeferredPending
       /\ CallBegin("t1", c, << b >>, 1, 1)
  \/ GetPipelineLookup("t1")
  \/ GetPipelineBuild("t1")
  \/ LaunchKernel("t1")
  \/ StreamSync("t1", 0, nullptr)

SpecDeferred == InitDeferred /\ [][NextDeferred]_vars

\* The (descriptor set, buffer list) pairs of the launches recorded on the
\* command buffer cmds.
Carried(cmds) ==
  {<< cmds[i].descriptor_set, cmds[i].args >> :
     i \in {k \in 1..Len(cmds) : cmds[k].op = "vkCmdDispatch"}}

\* C10: in deferred mode a launch runs vkUpdateDescriptorSets, once, exactly
\* when no launch recorded on the Stream since its last synchronize carried
\* the same descriptor set and buffer list; so the first launch after a
\* synchronize runs it whatever it carries.
C10_InitOncePerToken ==
  last.op = "LaunchKernel" /\ last.ok /\ ~UseImmediate(last.call.device_id)
    =>
    LET d == last.call.device_id
        infos == EventsOf("descriptor_buffers")[1].infos
        set == ecache_[d][last.f.func_name_].descriptor_set
        bufs == [i \in 1..Len(infos) |-> infos[i].buffer]
        cmds == streams_[last.t][d].cmd_buffer_
        own == EventsOf("LaunchDeferred")[1].cmds
        earlier == SubSeq(cmds, 1, Len(cmds) - Len(own))
        inits == EventsOf("vkUpdateDescriptorSets")
    IN /\ Len(inits) = (IF << set, bufs >> \in Carried(earlier) THEN 0 ELSE 1)
       /\ inits # << >> =>
            /\ inits[1].set = set
            /\ [i \in 1..Len(inits[1].writes) |-> inits[1].writes[i].buffer]
                 = bufs

\* A launch skips the initializer although a launch with other buffers on
\* the same descriptor set came in between.
C10_Witness ==
  /\ last.op = "LaunchKernel" /\ last.ok
  /\ ~UseImmediate(last.call.device_id)
  /\ EventsOf("vkUpdateDescriptorSets") = << >>
  /\ Cardinality(Carried(streams_[last.t][last.call.device_id].cmd_buffer_))
       >= 2

\* The commands the launches among the events evs recorded, in order.
RECURSIVE CmdsOf(_)
CmdsOf(evs) ==
  IF evs = << >> THEN << >>
  ELSE (IF Head(evs).e = "Synchronize" THEN << >> ELSE Head(evs).cmds)
         \o CmdsOf(Tail(evs))

\* What identifies a dispatch among the recorded commands and among the
\* executed ones.
DispatchIds(xs) ==
  [i \in DOMAIN xs |-> << xs[i].args, xs[i].grid, xs[i].pack_args >>]

Dispatches(cmds) ==
  DispatchIds(SelectSeq(cmds, LAMBDA c : c.op = "vkCmdDispatch"))

\* One step, seen from the Stream of thread t on device d.
StreamStep(t, d) ==
  LET old == streams_[t][d]
      new == streams_'[t][d]
      L == SelectSeq(events',
                     LAMBDA x : /\ x.e \in {"Launch", "LaunchDeferred",
                                            "Synchronize"}
                                /\ x.t = t /\ x.d = d)
      syncs == {i \in DOMAIN L : L[i].e = "Synchronize"}
  IN IF syncs = {}
       THEN /\ new.cmd_buffer_ = old.cmd_buffer_ \o CmdsOf(L)
            /\ old.deferred_tokens_ \subseteq new.deferred_tokens_
       ELSE LET k == CHOOSE i \in syncs : \A j \in syncs : i <= j
                z == CHOOSE i \in syncs : \A j \in syncs : i >= j
                before == old.cmd_buffer_ \o CmdsOf(SubSeq(L, 1, k - 1))
            IN /\ L[k].submitted = Len(before)
               /\ DispatchIds(L[k].exec) = Dispatches(before)
               /\ new.cmd_buffer_ = CmdsOf(SubSeq(L, z + 1, Len(L)))
               /\ z = Len(L) => new.deferred_tokens_ = {}

\* C29: a step that synchronizes a Stream submits every command recorded
\* on it so far, the dispatches run in the order they were recorded, and
\* the Stream is left with no recorded command and no deferred token; a
\* successful StreamSync is such a step for the caller's Stream on the
\* device. A step that does not synchronize the Stream executes nothing of
\* it: what was recorded stays recorded, followed by what the step records.
C29_SynchronizeDrains ==
  [][/\ \A t \in Threads, d \in Devices : StreamStep(t, d)
     /\ (last'.op = "StreamSync" /\ last'.ok) =>
          /\ streams_'[last'.t][last'.d].cmd_buffer_ = << >>
          /\ streams_'[last'.t][last'.d].deferred_tokens_ = {}
          /\ \E i \in DOMAIN events' :
               /\ events'[i].e = "Synchronize"
               /\ events'[i].t = last'.t /\ events'[i].d = last'.d
               /\ events'[i].submitted = Len(streams_[last'.t][last'.d].cmd_buffer_)]_vars

\* A StreamSync has submitted two launches with different buffers that had
\* been recorded by two steps, and has emptied the token set.
C29_Witness ==
  /\ last.op = "StreamSync" /\ last.ok
  /\ \E i \in DOMAIN events :
       /\ events[i].e = "Synchronize"
       /\ Len(events[i].exec) >= 2
       /\ events[i].exec[1].args # events[i].exec[2].args
  /\ streams_[last.t][last.d].cmd_buffer_ = << >>
  /\ streams_[last.t][last.d].deferred_tokens_ = {}

(***************************************************************************)
(* The commands of a launch, seen alike in the two protocols               *)
(***************************************************************************)
\* What a recorded command does, whichever protocol recorded it: binding
\* buffers is pushing their descriptors or binding a descriptor set, which
\* refers to what the set holds.
Observable(c) ==
  CASE c.op = "vkCmdPushDescriptorSetWithTemplateKHR" ->
         [op |-> "bind buffers",
          buffers |-> [i \in DOMAIN c.infos |-> c.infos[i].buffer]]
    [] c.op = "vkCmdBindDescriptorSets" ->
         [op |-> "bind buffers",
          buffers |-> IF c.set \in DOMAIN descriptor_sets
                        THEN [i \in DOMAIN descriptor_sets[c.set] |->
                                descriptor_sets[c.set][i].buffer]
                        ELSE << >>]
    [] c.op = "vkCmdPushConstants" ->
         [op |-> "push constants", size |-> c.size, values |-> c.values]
    [] c.op = "vkCmdDispatch" -> [op |-> "dispatch", grid |-> c.grid]
    [] OTHER -> c

\* The sequence a launch of f with call c is to record.
ExpectedCommands(t, f, c) ==
  LET pipeline == ecache_[c.device_id][f.func_name_]
      buffers == [i \in 1..f.num_buffer_args_ |-> BufHandle(c.args[i])]
                   \o (IF pipeline.use_ubo
                         THEN << uniform_buffers_[t][c.device_id].vk_buf >>
                         ELSE << >>)
  IN << [op |-> "vkCmdBindPipeline", pipeline |-> pipeline.pipeline],
        [op |-> "bind buffers", buffers |-> buffers] >>
     \o (IF ~pipeline.use_ubo /\ f.num_pack_args_ > 0
           THEN << [op |-> "push constants",
                    size |-> f.num_pack_args_ * SizeofArgUnion64,
                    values |-> PackBytes(c.pack_args)] >>
           ELSE << >>)
     \o << [op |-> "dispatch", grid |-> c.grid], PostDispatchBarrier >>

\* The commands the launch of the step just taken recorded.
LaunchCommands ==
  LET launches == SelectSeq(events,
                            LAMBDA x : x.e \in {"Launch", "LaunchDeferred"})
  IN IF launches = << >> THEN << >> ELSE launches[1].cmds

\* C31: a launch records, in either protocol, the binding of the pipeline,
\* the binding of the call's buffers, the push constants when the kernel
\* has scalars and no uniform block, the dispatch with the call's grid and
\* the barrier after the dispatch; with a uniform block the scalars are
\* written to it; and every recorded dispatch is followed by the barrier.
C31_SameCommands ==
  /\ (last.op = "LaunchKernel" /\ last.ok) =>
       /\ [i \in DOMAIN LaunchCommands |-> Observable(LaunchCommands[i])]
            = ExpectedCommands(last.t, last.f, last.call)
       /\ (EventsOf("memcpy") # << >>)
            = ecache_[last.call.device_id][last.f.func_name_].use_ubo
  /\ \A t \in Threads, d \in Devices :
       LET cmds == streams_[t][d].cmd_buffer_
       IN \A i \in DOMAIN cmds :
            cmds[i].op = "vkCmdDispatch" =>
              i < Len(cmds) /\ cmds[i + 1] = PostDispatchBarrier

\* C37: in deferred mode every dispatch that a synchronize executes reads
\* its buffer arguments through the descriptor set as the buffers that were
\* passed to the launch that recorded it.
C37_DispatchSeesOwnBuffers ==
  \A k \in DOMAIN events :
    (events[k].e = "Synchronize" /\ ~UseImmediate(events[k].d)) =>
      \A i \in DOMAIN events[k].exec :
        LET x == events[k].exec[i]
        IN /\ Len(x.buffers) >= Len(x.args)
           /\ SubSeq(x.buffers, 1, Len(x.args)) = x.args

(***************************************************************************)
(* One thread copies bytes between the host and a device buffer; the       *)
(* staging memory is coherent or not.                                      *)
(***************************************************************************)
InitCopy ==
  InitWith({c \in [Devices -> Contexts] :
              /\ c[0].coherent_staging = c[1].coherent_staging
              /\ \A d \in Devices :
                   /\ c[d].descriptor_template_khr_functions
                   /\ c[d].maxPushConstantsSize = SizeofArgUnion64},
           {[n \in Names |-> << >>]},
           {[n \in Names |-> [flag |-> {}]]})

\* The byte strings the host copies from, and the offsets of copies.
ByteSeqs == UNION {[1..k -> Scalars] : k \in 0..MaxSize}
Offsets == {0, 1}

NextCopy ==
  \/ ~heap[1].alive /\ AllocDataSpace("t1", 0, MaxSize)
  \/ \E bytes \in ByteSeqs, off \in Offsets :
       CopyFromHost("t1", bytes, 1, off, nullptr)
  \/ \E size \in 0..MaxSize, off \in Offsets :
       CopyToHost("t1", 1, off, size, nullptr)

SpecCopy == InitCopy /\ [][NextCopy]_vars

\* C7: a device-to-host copy that follows a host-to-device copy of the same
\* size to the same place of the same buffer, on the same thread, delivers
\* the bytes that copy was given, whatever the staging buffer held before.
C7_RoundTrip ==
  (/\ last.op = "CopyDeviceToHost" /\ last.ok
   /\ last.after.op = "CopyHostToDevice" /\ last.after.ok
   /\ last.after.t = last.t /\ last.after.ptr = last.ptr
   /\ last.after.offset = last.offset /\ last.after.size = last.size)
    => last.bytes = last.after.bytes

\* Round trips of no byte and of the largest size have been made, the
\* latter through a staging buffer that had to grow for it.
C7_Witness ==
  /\ last.op = "CopyDeviceToHost" /\ last.ok
  /\ last.after.op = "CopyHostToDevice" /\ last.after.ok
  /\ last.after.ptr = last.ptr /\ last.after.offset = last.offset
  /\ last.after.size = last.size /\ last.size = MaxSize
  /\ last.bytes = last.after.bytes
  /\ staging_buffers_[last.t][last.d].gen >= 2
  /\ ~context_[last.d].coherent_staging

(***************************************************************************)
(* The order of the steps of a copy between the host and a device          *)
(***************************************************************************)
\* Copies of runs of the byte 1, of every size, at both offsets.
NextOrder ==
  \/ ~heap[1].alive /\ AllocDataSpace("t1", 0, MaxSize)
  \/ \E k \in 0..MaxSize, off \in Offsets :
       CopyFromHost("t1", Repeat(1, k), 1, off, nullptr)
  \/ \E size \in 0..MaxSize, off \in Offsets :
       CopyToHost("t1", 1, off, size, nullptr)

SpecOrder == InitCopy /\ [][NextOrder]_vars

\* The calls of the step just taken, without those GetOrAllocate makes.
CopySteps ==
  SelectSeq(events,
            LAMBDA x : x.e \notin {"DeleteHostVisibleBuffer", "CreateBuffer",
                                   "return"})

StepNames == [i \in DOMAIN CopySteps |-> CopySteps[i].e]

\* C27: a device-to-host copy acquires the staging buffer of the source
\* device for the size, records one copy from the source buffer at the
\* offset to the start of the staging buffer on that device's Stream,
\* synchronizes the Stream, invalidates the mapping exactly when the
\* staging memory is not coherent, and copies to the host last; the bytes
\* the host receives are those of the device buffer.
C27_DeviceToHostOrder ==
  (last.op = "CopyDeviceToHost" /\ last.ok) =>
    LET temp == staging_buffers_[last.t][last.d]
        n == Len(CopySteps)
    IN /\ last.d = heap[last.ptr].dev
       /\ StepNames =
            << "GetOrAllocate", "Launch", "Synchronize" >>
            \o (IF context_[last.d].coherent_staging THEN << >>
                ELSE << "vkInvalidateMappedMemoryRanges" >>)
            \o << "memcpy" >>
       /\ /\ CopySteps[1].kind = "staging" /\ CopySteps[1].t = last.t
          /\ CopySteps[1].d = last.d /\ CopySteps[1].size = last.size
       /\ /\ CopySteps[2].t = last.t /\ CopySteps[2].d = last.d
          /\ CopySteps[2].cmds =
               << CopyCmd(BufHandle(last.ptr), temp.vk_buf, last.offset, 0,
                          last.size) >>
       /\ /\ CopySteps[3].t = last.t /\ CopySteps[3].d = last.d
          /\ CopySteps[3].submitted = 1
       /\ n = 5 => CopySteps[4].d = last.d /\ CopySteps[4].buf = temp.vk_buf
       /\ /\ CopySteps[n].to = "host" /\ CopySteps[n].size = last.size
          /\ CopySteps[n].bytes = last.bytes
          /\ last.bytes = Slice(heap[last.ptr].data, last.offset, last.size)

\* A copy of the largest size from a device whose staging memory is not
\* coherent, through a staging buffer made for it, after the device buffer
\* had been written.
C27_Witness ==
  /\ last.op = "CopyDeviceToHost" /\ last.ok /\ last.size = MaxSize
  /\ ~context_[last.d].coherent_staging
  /\ EventsOf("vkInvalidateMappedMemoryRanges") # << >>
  /\ EventsOf("CreateBuffer") # << >>
  /\ \E i \in DOMAIN last.bytes : last.bytes[i] # 0

\* C28: a host-to-device copy acquires the staging buffer of the
\* destination device for the size, copies the host bytes into the
\* mapping, flushes exactly when the staging memory is not coherent,
\* records the HOST to TRANSFER barrier and then the copy to the
\* destination at the offset on that device's Stream, and synchronizes the
\* Stream as its last step; the bytes are in the device buffer afterwards
\* and nothing is left recorded.
C28_HostToDeviceOrder ==
  (last.op = "CopyHostToDevice" /\ last.ok) =>
    LET temp == staging_buffers_[last.t][last.d]
        n == Len(CopySteps)
    IN /\ last.d = heap[last.ptr].dev
       /\ StepNames =
            << "GetOrAllocate", "memcpy" >>
            \o (IF context_[last.d].coherent_staging THEN << >>
                ELSE << "vkFlushMappedMemoryRanges" >>)
            \o << "Launch", "Synchronize" >>
       /\ events[Len(events)].e = "Synchronize"
       /\ /\ CopySteps[1].kind = "staging" /\ CopySteps[1].t = last.t
          /\ CopySteps[1].d = last.d /\ CopySteps[1].size = last.size
       /\ /\ CopySteps[2].to = "staging" /\ CopySteps[2].bytes = last.bytes
       /\ n = 5 => CopySteps[3].d = last.d /\ CopySteps[3].buf = temp.vk_buf
       /\ /\ CopySteps[n - 1].t = last.t /\ CopySteps[n - 1].d = last.d
          /\ CopySteps[n - 1].cmds =
               << HostBarrier,
                  CopyCmd(temp.vk_buf, BufHandle(last.ptr), 0, last.offset,
                          last.size) >>
       /\ /\ CopySteps[n].t = last.t /\ CopySteps[n].d = last.d
          /\ CopySteps[n].submitted = 2
       /\ streams_[last.t][last.d].cmd_buffer_ = << >>
       /\ Slice(heap[last.ptr].data, last.offset, last.size) = last.bytes

\* A copy of the largest size to a device whose staging memory is not
\* coherent, through a staging buffer that had to grow for it.
C28_Witness ==
  /\ last.op = "CopyHostToDevice" /\ last.ok /\ last.size = MaxSize
  /\ ~context_[last.d].coherent_staging
  /\ EventsOf("vkFlushMappedMemoryRanges") # << >>
  /\ EventsOf("DeleteHostVisibleBuffer") # << >>
  /\ \E i \in DOMAIN last.bytes : last.bytes[i] # 0

(***************************************************************************)
(* The construction of the VulkanDeviceAPI singleton                       *)
(***************************************************************************)
\* The device extensions that decide the launch protocol.
PushExtensions == {"VK_KHR_push_descriptor", "VK_KHR_descriptor_update_template"}

\* The names of environment variables a user may set, and their values.
EnvNames == {"TVM_VULKAN_DISABLE_PUSH_DESCRIPTOR", "VULKAN_DISABLE_PUSH_DESCRIPTOR"}
EnvValues == {"", "1"}
Environments == UNION {[N -> EnvValues] : N \in SUBSET EnvNames}

\* std::getenv: the value, or the null pointer for a variable that is unset.
getenv(env, name) == IF name \in DOMAIN env THEN env[name] ELSE nullptr

\* find_enabled_extensions: the optional extensions the driver offers.
find_enabled_extensions(available_extensions, optional_extensions) ==
  optional_extensions \cap available_extensions

\* The producer's variant does not look at the environment.
Mutant_supports_push_descriptor(device_extensions, env) ==
  /\ "VK_KHR_push_descriptor" \in device_extensions
  /\ "VK_KHR_descriptor_update_template" \in device_extensions

\* GetDeviceDescription: the target's supports_push_descriptor.
supports_push_descriptor(device_extensions, env) ==
  LET disable == getenv(env, "TVM_VULKAN_DISABLE_PUSH_DESCRIPTOR")
  IN IF disable # nullptr /\ disable # ""
       THEN FALSE
       ELSE /\ "VK_KHR_push_descriptor" \in device_extensions
            /\ "VK_KHR_descriptor_update_template" \in device_extensions

\* VulkanDeviceAPI::VulkanDeviceAPI on a host whose device d offers the
\* extensions available[d], in a process with the environment env.
VulkanDeviceAPIConstructor(env, available) ==
  /\ instance_ = nullptr
  /\ instance_' = "VkInstance"
  /\ context_' =
       [d \in DOMAIN available |->
          NewContext(
            supports_push_descriptor(
              find_enabled_extensions(available[d], PushExtensions), env),
            TRUE, SizeofArgUnion64)]
  /\ last' = [op |-> "VulkanDeviceAPI", ok |-> TRUE, env |-> env,
              available |-> available]
  /\ events' = << >>
  /\ UNCHANGED << fmap_, smap_, source_, cacheVars, callVars, device, streams_,
                  staging_buffers_, uniform_buffers_, heap, descriptor_sets >>

\* The process before the first use of the device API.
InitHost ==
  /\ instance_ = nullptr
  /\ context_ = << >>
  /\ fmap_ = [n \in Names |-> << >>]
  /\ smap_ = [n \in Names |-> [flag |-> {}]]
  /\ source_ = ""
  /\ ecache_ = [d \in Devices |-> [n \in Names |-> NullPipeline]]
  /\ ekeys_ = [d \in Devices |-> {}]
  /\ mutex_ = NoThread
  /\ funcs = [c \in Funcs |-> NoFunc]
  /\ device = [t \in Threads |-> 0]
  /\ streams_ = [t \in Threads |-> [d \in Devices |-> NoStream]]
  /\ staging_buffers_ =
       [t \in Threads |-> [d \in Devices |-> NoHostVisibleBuffer]]
  /\ uniform_buffers_ =
       [t \in Threads |-> [d \in Devices |-> NoHostVisibleBuffer]]
  /\ heap = [b \in BufIds |-> NoBuffer]
  /\ descriptor_sets = << >>
  /\ pc = [t \in Threads |-> "idle"]
  /\ call = [t \in Threads |-> [f |-> "none"]]
  /\ last = [op |-> "none", ok |-> TRUE]
  /\ events = << >>
  /\ nbuilt = [d \in Devices |-> [n \in Names |-> 0]]

NextHost ==
  \/ \E env \in Environments, available \in [Devices -> SUBSET PushExtensions] :
       VulkanDeviceAPIConstructor(env, available)
  \/ GetFunction("c1", "f")
  \/ \E d \in Devices : SetDevice("t1", d)
  \/ /\ instance_ # nullptr
     /\ PendingOf("t1") < MaxModulePending
     /\ CallBegin("t1", "c1", << >>, 1, 1)
  \/ GetPipelineLookup("t1")
  \/ GetPipelineBuild("t1")
  \/ LaunchKernel("t1")
  \/ \E d \in DOMAIN context_ : StreamSync("t1", d, nullptr)

SpecHost == InitHost /\ [][NextHost]_vars

\* C18: on every device UseImmediate() holds exactly if the context has the
\* push descriptor function table, and that exactly if its target has
\* supports_push_descriptor; a kernel launch on a device where it holds
\* records once, at once, with one push of the descriptors and no bound
\* descriptor set, and on a device where it does not hold goes once through
\* the deferred launch with one bound descriptor set and no push.
C18_ProtocolFollowsTarget ==
  /\ \A d \in DOMAIN context_ :
       /\ UseImmediate(d) <=> context_[d].descriptor_template_khr_functions
       /\ context_[d].descriptor_template_khr_functions
            <=> context_[d].target.supports_push_descriptor
  /\ (last.op = "LaunchKernel" /\ last.ok) =>
       LET imm == context_[last.call.device_id].target.supports_push_descriptor
       IN /\ Len(EventsOf("Launch")) = (IF imm THEN 1 ELSE 0)
          /\ Len(EventsOf("LaunchDeferred")) = (IF imm THEN 0 ELSE 1)
          /\ Len(Recorded("vkCmdPushDescriptorSetWithTemplateKHR"))
               = (IF imm THEN 1 ELSE 0)
          /\ Len(Recorded("vkCmdBindDescriptorSets")) = (IF imm THEN 0 ELSE 1)
          /\ imm => EventsOf("vkUpdateDescriptorSets") = << >>

\* The kernel has been launched on a device with the push descriptor
\* functions, on a host where the other device lacks them.
C18_Witness ==
  /\ last.op = "LaunchKernel" /\ last.ok
  /\ context_[last.call.device_id].target.supports_push_descriptor
  /\ EventsOf("Launch") # << >>
  /\ \E d \in DOMAIN context_ :
       /\ ~context_[d].target.supports_push_descriptor
       /\ ecache_[d]["f"].valid

\* Whether the environment has the variable with a value that is not empty.
IsSet(env, name) == name \in DOMAIN env /\ env[name] # ""

\* C19: with TVM_VULKAN_DISABLE_PUSH_DESCRIPTOR set to a value that is not
\* empty the constructor makes supports_push_descriptor and UseImmediate()
\* false on every device, whatever its extensions; with the variable unset or
\* empty supports_push_descriptor is true on exactly the devices that offer
\* both VK_KHR_push_descriptor and VK_KHR_descriptor_update_template.
C19_TvmDisablePushDescriptor ==
  last.op = "VulkanDeviceAPI" =>
    \A d \in DOMAIN context_ :
      IF IsSet(last.env, "TVM_VULKAN_DISABLE_PUSH_DESCRIPTOR")
        THEN /\ ~context_[d].target.supports_push_descriptor
             /\ ~UseImmediate(d)
        ELSE context_[d].target.supports_push_descriptor
               <=> PushExtensions \subseteq last.available[d]

\* The singleton has been constructed with the variable set on a host with a
\* device that offers both extensions.
C19_Witness ==
  /\ last.op = "VulkanDeviceAPI"
  /\ IsSet(last.env, "TVM_VULKAN_DISABLE_PUSH_DESCRIPTOR")
  /\ \E d \in DOMAIN context_ :
       /\ PushExtensions \subseteq last.available[d]
       /\ ~UseImmediate(d)

\* C19 as stated, with the variable VULKAN_DISABLE_PUSH_DESCRIPTOR: set to a
\* value that is not empty it makes supports_push_descriptor and
\* UseImmediate() false on every device; unset or empty,
\* supports_push_descriptor is true exactly with both extensions.
C19_DisablePushDescriptor ==
  last.op = "VulkanDeviceAPI" =>
    \A d \in DOMAIN context_ :
      IF IsSet(last.env, "VULKAN_DISABLE_PUSH_DESCRIPTOR")
        THEN /\ ~context_[d].target.supports_push_descriptor
             /\ ~UseImmediate(d)
        ELSE context_[d].target.supports_push_descriptor
               <=> PushExtensions \subseteq last.available[d]

(***************************************************************************)
(* The end of the VulkanDeviceAPI singleton                                *)
(***************************************************************************)
\* The producer's variant destroys the instance before the devices.
Mutant_DestroyCalls(contexts, instance) ==
  (IF instance # nullptr THEN << [e |-> "vkDestroyInstance"] >> ELSE << >>)
    \o [i \in 1..Cardinality(contexts) |-> [e |-> "vkDestroyDevice", d |-> i - 1]]

\* The calls of ~VulkanDeviceAPI in order: one vkDestroyDevice per element
\* of context_ in vector order, then vkDestroyInstance if instance_ is set.
DestroyCalls(contexts, instance) ==
  [i \in 1..Cardinality(contexts) |-> [e |-> "vkDestroyDevice", d |-> i - 1]]
    \o (IF instance # nullptr THEN << [e |-> "vkDestroyInstance"] >> ELSE << >>)

\* VulkanDeviceAPI::~VulkanDeviceAPI.
VulkanDeviceAPIDestructor ==
  /\ instance_ # "destroyed"
  /\ \A t \in Threads : pc[t] = "idle"
  /\ events' = DestroyCalls(DOMAIN context_, instance_)
  /\ last' = [op |-> "~VulkanDeviceAPI", ok |-> TRUE,
              contexts |-> DOMAIN context_]
  /\ instance_' = "destroyed"
  /\ UNCHANGED << context_, fmap_, smap_, source_, cacheVars, callVars, device,
                  streams_, staging_buffers_, uniform_buffers_, heap,
                  descriptor_sets >>

\* The hosts the constructor can find: context_ holds one VulkanContext per
\* usable device, none included.
DeviceCounts == {0..(k - 1) : k \in 0..Cardinality(Devices)}

InitTeardown ==
  InitWith(UNION {[D -> {c \in Contexts :
                           /\ c.descriptor_template_khr_functions
                           /\ c.coherent_staging
                           /\ c.maxPushConstantsSize = SizeofArgUnion64}] :
                    D \in DeviceCounts},
           {[n \in Names |-> << >>]},
           {[n \in Names |-> [flag |-> {}]]})

NextTeardown ==
  \/ /\ instance_ # "destroyed"
     /\ \E d \in DOMAIN context_, nbytes \in {0, MaxSize} :
          AllocDataSpace("t1", d, nbytes)
  \/ /\ instance_ # "destroyed"
     /\ \E from, to \in BufIds :
          /\ PendingOf("t1") < MaxFacadePending
          /\ CopyOnDevice("t1", from, 0, to, 0, 1, nullptr)
  \/ /\ instance_ # "destroyed"
     /\ \E d \in DOMAIN context_ : StreamSync("t1", d, nullptr)
  \/ /\ instance_ # "destroyed"
     /\ \E d \in DOMAIN context_, ptr \in BufIds : FreeDataSpace("t1", d, ptr)
  \/ VulkanDeviceAPIDestructor

SpecTeardown == InitTeardown /\ [][NextTeardown]_vars

\* C16: the destructor of the device API calls vkDestroyDevice exactly once
\* for every context of context_ and nothing else but one vkDestroyInstance,
\* which comes after every vkDestroyDevice.
C16_DevicesThenInstance ==
  last.op = "~VulkanDeviceAPI" =>
    /\ \A d \in last.contexts :
         Cardinality({i \in DOMAIN events :
                        events[i] = [e |-> "vkDestroyDevice", d |-> d]}) = 1
    /\ Len(events) = Cardinality(last.contexts) + 1
    /\ events[Len(events)] = [e |-> "vkDestroyInstance"]
    /\ \A i \in 1..(Len(events) - 1) : events[i].e = "vkDestroyDevice"

\* The singleton of a host with two devices has been torn down after use.
C16_Witness ==
  /\ last.op = "~VulkanDeviceAPI"
  /\ Cardinality(last.contexts) = 2
  /\ Len(events) = 3
  /\ \E b \in BufIds : heap[b].requested > 0

(***************************************************************************)
(* One thread uses the device facade on a host with two devices: it        *)
(* allocates and frees buffers on either and copies between them.          *)
(***************************************************************************)
InitFacade ==
  InitWith({c \in [Devices -> Contexts] :
              \A d \in Devices :
                /\ c[d].descriptor_template_khr_functions
                /\ c[d].coherent_staging
                /\ c[d].maxPushConstantsSize = SizeofArgUnion64},
           {[n \in Names |-> << >>]},
           {[n \in Names |-> [flag |-> {}]]})

NextFacade ==
  \/ \E d \in Devices, nbytes \in {0, MaxSize} :
       AllocDataSpace("t1", d, nbytes)
  \/ \E from, to \in BufIds :
       /\ PendingOf("t1") < MaxFacadePending
       /\ CopyOnDevice("t1", from, 0, to, 0, 1, nullptr)
  \/ \E d \in Devices : StreamSync("t1", d, nullptr)
  \/ \E d \in Devices, ptr \in BufIds : FreeDataSpace("t1", d, ptr)

SpecFacade == InitFacade /\ [][NextFacade]_vars

\* C11: a device-to-device copy between buffers of different devices fails
\* its device id check: the call ends with the fatal error, after recording
\* the copy command and before the barrier, and submits nothing.
C11_CrossDeviceRejected ==
  (/\ last.op = "CopyDeviceToDevice" /\ last.stream = nullptr
   /\ last.d # last.dev_to) =>
    /\ ~last.ok
    /\ Len(events) = 2
    /\ events[1].e = "Launch" /\ events[1].d = last.d
    /\ events[1].cmds =
         << CopyCmd(BufHandle(last.ptr), BufHandle(last.to), 0, 0, last.size) >>
    /\ events[2] = [e |-> "FATAL",
                    what |-> "Vulkan disallow cross device copy."]

\* A copy from a buffer on one device to a buffer on the other has been
\* attempted and has failed.
C11_Witness ==
  /\ last.op = "CopyDeviceToDevice" /\ last.stream = nullptr
  /\ last.d # last.dev_to
  /\ last.size > 0 /\ ~last.ok
  /\ heap[last.ptr].alive /\ heap[last.to].alive
  /\ heap[last.ptr].dev # heap[last.to].dev

\* C38: when a device-to-device copy is rejected for its device ids, the
\* call has recorded nothing: no copy command and no barrier of the request
\* is in the command buffer of the source device's Stream.
C38_NothingRecordedOnReject ==
  (/\ last.op = "CopyDeviceToDevice" /\ last.d # last.dev_to
   /\ "Vulkan disallow cross device copy." \in Fatal) =>
    LET cmd_buffer_ == streams_[last.t][last.d].cmd_buffer_
    IN /\ EventsOf("Launch") = << >>
       /\ \/ cmd_buffer_ = << >>
          \/ cmd_buffer_[Len(cmd_buffer_)]
               # CopyCmd(BufHandle(last.ptr), BufHandle(last.to), 0, 0, last.size)

\* C13: AllocDataSpace of zero bytes succeeds and returns a buffer of one
\* byte, created on the compute memory type; FreeDataSpace of a buffer that
\* came from a zero-byte request succeeds and destroys it like any other.
C13_ZeroByteAlloc ==
  /\ (last.op = "AllocDataSpace" /\ last.nbytes = 0) =>
       /\ last.ok /\ last.ptr \in BufIds
       /\ heap[last.ptr].alive /\ heap[last.ptr].dev = last.d
       /\ heap[last.ptr].size = 1 /\ Len(heap[last.ptr].data) = 1
       /\ events = << [e |-> "CreateBuffer", kind |-> "buf", d |-> last.d,
                       size |-> 1, buf |-> BufHandle(last.ptr),
                       mem_type_index |-> "compute_mtype_index"] >>
  /\ (last.op = "FreeDataSpace" /\ last.freed.requested = 0) =>
       /\ last.ok /\ last.freed.alive /\ last.freed.size = 1
       /\ ~heap[last.ptr].alive
       /\ Len(events) = 2 /\ events[1].e = "Synchronize"
       /\ events[2].e = "vkDestroyBuffer" /\ events[2].ptr = last.ptr

\* A buffer that came from a zero-byte request has been freed while another
\* buffer stays allocated.
C13_Witness ==
  /\ last.op = "FreeDataSpace" /\ last.freed.requested = 0 /\ last.ok
  /\ \E b \in BufIds : heap[b].alive /\ heap[b].requested > 0

(***************************************************************************)
(* One thread uses every operation of the facade that takes a stream       *)
(* handle, on one buffer, with the null handle and with another one.       *)
(***************************************************************************)
NextStreams ==
  \/ ~heap[1].alive /\ AllocDataSpace("t1", 0, 1)
  \/ \E stream \in StreamHandles :
       /\ PendingOf("t1") < MaxFacadePending
       /\ CopyOnDevice("t1", 1, 0, 1, 0, 1, stream)
  \/ \E stream \in StreamHandles : CopyFromHost("t1", << 1 >>, 1, 0, stream)
  \/ \E stream \in StreamHandles : CopyToHost("t1", 1, 0, 1, stream)
  \/ \E d \in Devices, stream \in StreamHandles : StreamSync("t1", d, stream)
  \/ \E d \in Devices : CreateStream("t1", d)
  \/ \E d \in Devices, stream \in StreamHandles : FreeStream("t1", d, stream)
  \/ \E d \in Devices, stream \in StreamHandles : SetStream("t1", d, stream)
  \/ \E d \in Devices, event_src, event_dst \in StreamHandles :
       SyncStreamFromTo("t1", d, event_src, event_dst)

SpecStreams == InitFacade /\ [][NextStreams]_vars

\* The operations of the facade that take one stream handle, and whether
\* the step just taken is one of them called with a handle that is not null.
StreamTaking ==
  {"CopyHostToDevice", "CopyDeviceToHost", "CopyDeviceToDevice",
   "StreamSync", "SetStream", "FreeStream"}

NonNullStream ==
  \/ last.op \in StreamTaking /\ last.stream # nullptr
  \/ /\ last.op = "SyncStreamFromTo"
     /\ (last.event_src # nullptr \/ last.event_dst # nullptr)

\* C12: a stream-taking operation called with a handle that is not null
\* fails its check and has done nothing else: no event but the failure, no
\* change of state. Called with the null handle, the check passes: SetStream,
\* FreeStream and SyncStreamFromTo succeed and change nothing, StreamSync
\* synchronizes, and a copy fails only for its own reasons. CreateStream
\* returns the null handle.
C12_OnlyNullStream ==
  /\ NonNullStream =>
       /\ ~last.ok /\ ~last.changed
       /\ events = << [e |-> "FATAL", what |-> "ICHECK(stream == nullptr)"] >>
  /\ (last.op \in {"SetStream", "FreeStream", "SyncStreamFromTo"}
        /\ ~NonNullStream) =>
       last.ok /\ ~last.changed /\ events = << >>
  /\ (last.op = "StreamSync" /\ ~NonNullStream) =>
       /\ last.ok /\ Len(events) = 1 /\ events[1].e = "Synchronize"
       /\ streams_[last.t][last.d].cmd_buffer_ = << >>
  /\ (last.op \in {"CopyHostToDevice", "CopyDeviceToHost",
                    "CopyDeviceToDevice"} /\ ~NonNullStream) =>
       last.ok /\ Len(events) >= 1 /\ events[1].e # "FATAL"
  /\ last.op = "CreateStream" =>
       last.returned = nullptr /\ last.ok /\ ~last.changed

\* A StreamSync with a handle that is not null has been refused while a copy
\* was waiting to be submitted.
C12_Witness ==
  /\ last.op = "StreamSync" /\ last.stream # nullptr /\ ~last.ok
  /\ streams_[last.t][last.d].cmd_buffer_ # << >>

(***************************************************************************)
(* Saving a module to a binary stream and loading one from it              *)
(***************************************************************************)
\* VulkanModuleNode::fmt_
fmt_ == "vulkan"

\* dmlc::Stream::Write of a string: one item of the stream.
WriteString(str) == << str >>

\* dmlc::Stream::Write of a vector: its length, then its elements.
WriteVector(vec) == << Len(vec) >> \o vec

\* dmlc::Stream::Read of a string at position pos: the string and the
\* position behind it.
ReadString(stream, pos) == [v |-> stream[pos], pos |-> pos + 1]

\* dmlc::Stream::Read of a vector at position pos.
ReadVector(stream, pos) ==
  [v |-> SubSeq(stream, pos + 1, pos + stream[pos]),
   pos |-> pos + 1 + stream[pos]]

\* The flag word of a VulkanShader, bit 0 being kUseUBO, and back.
FlagWord(flag) == IF "kUseUBO" \in flag THEN 1 ELSE 0
WordFlag(word) == IF word % 2 = 1 THEN {"kUseUBO"} ELSE {}

\* FunctionInfo::Save and Load: the name of the function, then arg_types.
SaveFunctionInfo(name, info) == WriteString(name) \o WriteVector(info)
LoadFunctionInfo(stream, pos) == ReadVector(stream, ReadString(stream, pos).pos)

\* VulkanShader::Save and Load: the flag word, then the SPIR-V words.
SaveShader(shader) == << FlagWord(shader.flag) >> \o WriteVector(shader.data)
LoadShader(stream, pos) ==
  [v |-> [flag |-> WordFlag(stream[pos]),
          data |-> ReadVector(stream, pos + 1).v],
   pos |-> ReadVector(stream, pos + 1).pos]

\* An unordered_map without entries, and emplace of a key that is not in it.
EmptyMap == [k \in {} |-> 0]
Emplace(map, key, value) ==
  [k \in DOMAIN map \cup {key} |->
     IF k \in DOMAIN map THEN map[k] ELSE value]

\* dmlc::Stream::Write of fmap_: the number of entries, then key and value of
\* each in the order the map iterates in.
RECURSIVE WriteFmapEntries(_, _)
WriteFmapEntries(fmap, order) ==
  IF order = << >> THEN << >>
  ELSE WriteString(Head(order)) \o SaveFunctionInfo(Head(order), fmap[Head(order)])
         \o WriteFmapEntries(fmap, Tail(order))

WriteFmap(fmap, order) == << Len(order) >> \o WriteFmapEntries(fmap, order)

\* dmlc::Stream::Write of smap_.
RECURSIVE WriteSmapEntries(_, _)
WriteSmapEntries(smap, order) ==
  IF order = << >> THEN << >>
  ELSE WriteString(Head(order)) \o SaveShader(smap[Head(order)])
         \o WriteSmapEntries(smap, Tail(order))

WriteSmap(smap, order) == << Len(order) >> \o WriteSmapEntries(smap, order)

\* dmlc::Stream::Read of a map of FunctionInfo: n entries from position pos.
RECURSIVE ReadFmapEntries(_, _, _, _)
ReadFmapEntries(stream, pos, n, map) ==
  IF n = 0 THEN [v |-> map, pos |-> pos]
  ELSE The({ReadFmapEntries(stream, e.pos, n - 1,
                            Emplace(map, ReadString(stream, pos).v, e.v)) :
              e \in {LoadFunctionInfo(stream, ReadString(stream, pos).pos)}})

ReadFmap(stream, pos) == ReadFmapEntries(stream, pos + 1, stream[pos], EmptyMap)

\* dmlc::Stream::Read of a map of VulkanShader.
RECURSIVE ReadSmapEntries(_, _, _, _)
ReadSmapEntries(stream, pos, n, map) ==
  IF n = 0 THEN [v |-> map, pos |-> pos]
  ELSE The({ReadSmapEntries(stream, e.pos, n - 1,
                            Emplace(map, ReadString(stream, pos).v, e.v)) :
              e \in {LoadShader(stream, ReadString(stream, pos).pos)}})

ReadSmap(stream, pos) == ReadSmapEntries(stream, pos + 1, stream[pos], EmptyMap)

\* VulkanModuleCreate
VulkanModuleCreate(smap, fmap, source) ==
  [smap_ |-> smap, fmap_ |-> fmap, source_ |-> source]

\* VulkanModuleNode::SaveToBinary: what it writes to the stream, the maps
\* iterating in the orders given.
SaveToBinaryOp(fmap_order, smap_order) ==
  WriteString(fmt_) \o WriteFmap(fmap_, fmap_order) \o WriteSmap(smap_, smap_order)

\* The producer's variant does not read the shaders back.
Mutant_VulkanModuleLoadBinaryOp(stream) ==
  VulkanModuleCreate(EmptyMap, ReadFmap(stream, ReadString(stream, 1).pos).v, "")

\* VulkanModuleLoadBinary: the module made from the stream.
VulkanModuleLoadBinaryOp(stream) ==
  The({VulkanModuleCreate(ReadSmap(stream, fmap.pos).v, fmap.v, "") :
         fmap \in {ReadFmap(stream, ReadString(stream, 1).pos)}})

SaveToBinary ==
  /\ \A t \in Threads : pc[t] = "idle"
  /\ \E fmap_order \in Orders(DOMAIN fmap_), smap_order \in Orders(DOMAIN smap_) :
       last' = [op |-> "SaveToBinary", ok |-> TRUE,
                stream |-> SaveToBinaryOp(fmap_order, smap_order)]
  /\ events' = << >>
  /\ UNCHANGED << cfgVars, cacheVars, callVars, device, streams_,
                  staging_buffers_, uniform_buffers_, heap, descriptor_sets >>

\* VulkanModuleLoadBinary on the stream SaveToBinary has just written.
VulkanModuleLoadBinary ==
  /\ last.op = "SaveToBinary"
  /\ last' = [op |-> "VulkanModuleLoadBinary", ok |-> TRUE,
              stream |-> last.stream,
              loaded |-> VulkanModuleLoadBinaryOp(last.stream)]
  /\ events' = << >>
  /\ UNCHANGED << cfgVars, cacheVars, callVars, device, streams_,
                  staging_buffers_, uniform_buffers_, heap, descriptor_sets >>

\* The SPIR-V words of a shader and the source texts of a module.
ShaderData == {<< >>, << 7, 9 >>}
Sources == {"", "source"}

\* A module of any kernels with any shaders and source, on a host at rest.
InitBinary ==
  /\ instance_ = nullptr
  /\ context_ = << >>
  /\ \E N \in SUBSET Names :
       /\ fmap_ \in [N -> ArgTypeSeqs]
       /\ smap_ \in [N -> [flag : ShaderFlags, data : ShaderData]]
  /\ source_ \in Sources
  /\ ecache_ = [d \in Devices |-> [n \in Names |-> NullPipeline]]
  /\ ekeys_ = [d \in Devices |-> {}]
  /\ mutex_ = NoThread
  /\ funcs = [c \in Funcs |-> NoFunc]
  /\ device = [t \in Threads |-> 0]
  /\ streams_ = [t \in Threads |-> [d \in Devices |-> NoStream]]
  /\ staging_buffers_ =
       [t \in Threads |-> [d \in Devices |-> NoHostVisibleBuffer]]
  /\ uniform_buffers_ =
       [t \in Threads |-> [d \in Devices |-> NoHostVisibleBuffer]]
  /\ heap = [b \in BufIds |-> NoBuffer]
  /\ descriptor_sets = << >>
  /\ pc = [t \in Threads |-> "idle"]
  /\ call = [t \in Threads |-> [f |-> "none"]]
  /\ last = [op |-> "none", ok |-> TRUE]
  /\ events = << >>
  /\ nbuilt = [d \in Devices |-> [n \in Names |-> 0]]

NextBinary ==
  \/ SaveToBinary
  \/ VulkanModuleLoadBinary

SpecBinary == InitBinary /\ [][NextBinary]_vars

\* C20: the module loaded from the stream a module was saved to has the
\* shader table and the function table of the saved module, and the empty
\* string as its source.
C20_RoundTripTables ==
  last.op = "VulkanModuleLoadBinary" =>
    /\ last.loaded.smap_ = smap_
    /\ last.loaded.fmap_ = fmap_
    /\ last.loaded.source_ = ""

\* A module of two kernels, one of them with a UBO shader, and with a source
\* text has been saved and loaded.
C20_Witness ==
  /\ last.op = "VulkanModuleLoadBinary"
  /\ DOMAIN fmap_ = Names
  /\ \E n \in Names : ShaderUsesUBO(n) /\ smap_[n].data # << >>
  /\ \E n \in Names : Len(fmap_[n]) = 2
  /\ source_ # ""
  /\ Len(last.stream) > 3

\* C20 as stated: the module loaded has the shader table, the function table
\* and the source of the module saved.
C20_RoundTrip ==
  last.op = "VulkanModuleLoadBinary" =>
    /\ last.loaded.smap_ = smap_
    /\ last.loaded.fmap_ = fmap_
    /\ last.loaded.source_ = source_

(***************************************************************************)
(* The constructor's work on one physical device, step by step: each step  *)
(* is a function of what the driver reports, and is logged with it.        *)
(***************************************************************************)
\* A step of the constructor that ends with the log entry result.
ConstructorStep(result, log) ==
  /\ instance_ = nullptr
  /\ last' = result
  /\ events' = log
  /\ UNCHANGED << cfgVars, cacheVars, callVars, device, streams_,
                  staging_buffers_, uniform_buffers_, heap, descriptor_sets >>

\* Most memory types a device reports.
MaxMemoryTypes == 2

\* VkMemoryType with the size of its heap; the property flags by name.
MemoryTypes ==
  [propertyFlags : SUBSET {"DEVICE_LOCAL", "HOST_VISIBLE", "HOST_CACHED"}
                     \cup {{"HOST_VISIBLE", "HOST_COHERENT"}},
   heap_size : {1024}]
  \cup {[propertyFlags |-> {"DEVICE_LOCAL", "HOST_VISIBLE"}, heap_size |-> 512]}

\* The first loop over prop.memoryTypes, from type k on; win is the winner
\* so far. VK_MEMORY_PROPERTY_HOST_CACHED_BIT is 8.
RECURSIVE StagingMemoryType(_, _, _, _)
StagingMemoryType(memoryTypes, req_staging, k, win) ==
  IF k >= Len(memoryTypes) THEN win
  ELSE LET ty == memoryTypes[k + 1]
           rank == IF "HOST_CACHED" \in ty.propertyFlags THEN 8 ELSE 0
       IN StagingMemoryType(memoryTypes, req_staging, k + 1,
            IF /\ "HOST_VISIBLE" \in ty.propertyFlags
               /\ k \in req_staging
               /\ ty.heap_size >= 1024
               /\ rank > win.win_rank
              THEN [win_rank |-> rank, staging_mtype_index |-> k,
                    coherent_staging |-> "HOST_COHERENT" \in ty.propertyFlags]
              ELSE win)

\* The second loop, which selects the memory type of device buffers. It
\* tests the memoryTypeBits of the staging probe: req_compute is not read.
RECURSIVE ComputeMemoryType(_, _, _, _, _)
ComputeMemoryType(memoryTypes, req_staging, req_compute, k, win) ==
  IF k >= Len(memoryTypes) THEN win
  ELSE LET ty == memoryTypes[k + 1]
           rank == IF "HOST_VISIBLE" \in ty.propertyFlags THEN 0 ELSE 1
       IN ComputeMemoryType(memoryTypes, req_staging, req_compute, k + 1,
            IF /\ "DEVICE_LOCAL" \in ty.propertyFlags
               /\ k \in req_staging
               /\ ty.heap_size >= 1024
               /\ rank > win.win_rank
              THEN [win_rank |-> rank, compute_mtype_index |-> k]
              ELSE win)

\* The constructor's selection of the two memory types of a device whose
\* probe buffers may live in the types req_staging and req_compute.
SelectMemoryTypes(memoryTypes, req_staging, req_compute) ==
  \E staging \in {StagingMemoryType(memoryTypes, req_staging, 0,
                    [win_rank |-> -1])},
     compute \in {ComputeMemoryType(memoryTypes, req_staging, req_compute, 0,
                    [win_rank |-> -1])} :
    ConstructorStep(
      [op |-> "SelectMemoryTypes",
       ok |-> staging.win_rank >= 0 /\ compute.win_rank >= 0,
       memoryTypes |-> memoryTypes, req_staging |-> req_staging,
       req_compute |-> req_compute, staging |-> staging, compute |-> compute],
      IF staging.win_rank < 0
        THEN << [e |-> "FATAL",
                 what |-> "Cannot find suitable staging memory on device."] >>
      ELSE IF compute.win_rank < 0
        THEN << [e |-> "FATAL",
                 what |-> "Cannot find suitable local memory on device."] >>
      ELSE << >>)

\* The constructor runs once.
NextMemory ==
  /\ last.op = "none"
  /\ \E n \in 1..MaxMemoryTypes :
       \E memoryTypes \in [1..n -> MemoryTypes],
          req_staging \in SUBSET (0..(n - 1)),
          req_compute \in SUBSET (0..(n - 1)) :
         SelectMemoryTypes(memoryTypes, req_staging, req_compute)

SpecMemory == InitHost /\ [][NextMemory]_vars

\* C21: a context that the constructor makes has a host-visible memory type
\* as staging_mtype_index and, as compute_mtype_index, a device-local memory
\* type that the memoryTypeBits of the compute probe buffer allow.
C21_MemoryTypesFit ==
  (last.op = "SelectMemoryTypes" /\ last.ok) =>
    /\ "HOST_VISIBLE"
         \in last.memoryTypes[last.staging.staging_mtype_index + 1].propertyFlags
    /\ "DEVICE_LOCAL"
         \in last.memoryTypes[last.compute.compute_mtype_index + 1].propertyFlags
    /\ last.compute.compute_mtype_index \in last.req_compute

(***************************************************************************)
(* GetDeviceDescription: the API version and the SPIR-V version            *)
(***************************************************************************)
\* Largest minor version number a driver reports.
MaxMinor == 2

\* VK_MAKE_VERSION, VK_VERSION_MAJOR and VK_VERSION_MINOR: a version is one
\* number with the major from bit 22 up, the minor in bits 12 to 21 and the
\* patch in the low 12 bits.
VK_MAKE_VERSION(major, minor, patch) == major * 4194304 + minor * 4096 + patch
VK_VERSION_MAJOR(version) == version \div 4194304
VK_VERSION_MINOR(version) == (version \div 4096) % 1024

\* What a driver reports: apiVersion, and VkConformanceVersion.
ApiVersions ==
  {VK_MAKE_VERSION(major, minor, patch) :
     major \in {1, 2}, minor \in 0..MaxMinor, patch \in {0, 3}}
ConformanceVersions ==
  [major : {1, 2}, minor : 0..MaxMinor, subminor : {0, 3}]

\* The producer's variant clamps to the conformance version whenever the
\* extension is there.
Mutant_vulkan_api_version(apiVersion, conformanceVersion, extensions) ==
  IF "VK_KHR_driver_properties" \in extensions
    THEN VK_MAKE_VERSION(conformanceVersion.major, conformanceVersion.minor, 0)
    ELSE apiVersion

\* vulkan_api_version: apiVersion, or major and minor of the conformance
\* version with patch 0 when major and minor of apiVersion are above them.
vulkan_api_version(apiVersion, conformanceVersion, extensions) ==
  LET api_major == VK_VERSION_MAJOR(apiVersion)
      api_minor == VK_VERSION_MINOR(apiVersion)
  IN IF /\ "VK_KHR_driver_properties" \in extensions
        /\ \/ api_major > conformanceVersion.major
           \/ /\ api_major = conformanceVersion.major
              /\ api_minor > conformanceVersion.minor
       THEN VK_MAKE_VERSION(conformanceVersion.major, conformanceVersion.minor, 0)
       ELSE apiVersion

\* The producer's variant asks for the extension first.
Mutant_max_spirv_version(api_version, extensions) ==
  IF "VK_KHR_spirv_1_4" \in extensions THEN 66560
  ELSE IF api_version >= VK_MAKE_VERSION(1, 2, 0) THEN 66816
  ELSE IF api_version >= VK_MAKE_VERSION(1, 1, 0) THEN 66304
  ELSE 65536

\* max_spirv_version: 0x10500, 0x10400, 0x10300 or 0x10000.
max_spirv_version(api_version, extensions) ==
  IF api_version >= VK_MAKE_VERSION(1, 2, 0) THEN 66816
  ELSE IF "VK_KHR_spirv_1_4" \in extensions THEN 66560
  ELSE IF api_version >= VK_MAKE_VERSION(1, 1, 0) THEN 66304
  ELSE 65536

\* GetDeviceDescription, as far as the two versions go.
GetDeviceDescription(apiVersion, conformanceVersion, extensions) ==
  \E version \in {vulkan_api_version(apiVersion, conformanceVersion, extensions)} :
    ConstructorStep(
      [op |-> "GetDeviceDescription", ok |-> TRUE, apiVersion |-> apiVersion,
       conformanceVersion |-> conformanceVersion, extensions |-> extensions,
       vulkan_api_version |-> version,
       max_spirv_version |-> max_spirv_version(version, extensions)],
      << >>)

NextDescription ==
  /\ last.op = "none"
  /\ \E apiVersion \in ApiVersions, conformanceVersion \in ConformanceVersions,
        extensions \in SUBSET {"VK_KHR_driver_properties", "VK_KHR_spirv_1_4"} :
       GetDeviceDescription(apiVersion, conformanceVersion, extensions)

SpecDescription == InitHost /\ [][NextDescription]_vars

\* The SPIR-V version of the table: 1.5 from API 1.2 on, else 1.4 with
\* VK_KHR_spirv_1_4, else 1.3 from API 1.1 on, else 1.0, as 0x10000 plus 256
\* times the minor.
SpirvTable(major, minor, spirv_1_4) ==
  65536 + 256 * (IF major > 1 \/ minor >= 2 THEN 5
                 ELSE IF spirv_1_4 THEN 4
                 ELSE IF minor >= 1 THEN 3
                 ELSE 0)

\* C22: max_spirv_version follows the table for the clamped API version and
\* the extension, and a description of a version at least as high, with the
\* extension if this one has it, has a max_spirv_version at least as high.
C22_SpirvVersion ==
  last.op = "GetDeviceDescription" =>
    /\ last.max_spirv_version =
         SpirvTable(VK_VERSION_MAJOR(last.vulkan_api_version),
                    VK_VERSION_MINOR(last.vulkan_api_version),
                    "VK_KHR_spirv_1_4" \in last.extensions)
    /\ \A version \in ApiVersions, spirv_1_4 \in BOOLEAN :
         (/\ version >= last.vulkan_api_version
          /\ "VK_KHR_spirv_1_4" \in last.extensions => spirv_1_4) =>
           SpirvTable(VK_VERSION_MAJOR(version), VK_VERSION_MINOR(version),
                      spirv_1_4) >= last.max_spirv_version

\* A device of API 1.1 with VK_KHR_spirv_1_4 has been described, its version
\* clamped from 1.2 by the conformance version.
C22_Witness ==
  /\ last.op = "GetDeviceDescription"
  /\ last.apiVersion = VK_MAKE_VERSION(1, 2, 3)
  /\ last.vulkan_api_version = VK_MAKE_VERSION(1, 1, 0)
  /\ "VK_KHR_spirv_1_4" \in last.extensions
  /\ last.max_spirv_version = 66560

\* The number that major and minor of a version make.
MajorMinor(major, minor) == major * 1024 + minor

\* C23: without VK_KHR_driver_properties vulkan_api_version is the driver's
\* apiVersion. With it, major and minor of vulkan_api_version are the lesser
\* of those of apiVersion and those of the conformance version; the patch is
\* that of apiVersion when apiVersion's major and minor are not above the
\* conformance version's, and 0 otherwise; the result never exceeds
\* apiVersion.
C23_ClampMajorMinor ==
  last.op = "GetDeviceDescription" =>
    LET api == last.apiVersion
        conf == MajorMinor(last.conformanceVersion.major,
                           last.conformanceVersion.minor)
        got == last.vulkan_api_version
    IN IF "VK_KHR_driver_properties" \notin last.extensions THEN got = api
       ELSE /\ got <= api
            /\ got \div 4096 = (IF api \div 4096 <= conf THEN api \div 4096 ELSE conf)
            /\ got % 4096 = (IF api \div 4096 <= conf THEN api % 4096 ELSE 0)

\* An API version above the conformance version has been clamped, the driver
\* reporting VK_KHR_driver_properties.
C23_Witness ==
  /\ last.op = "GetDeviceDescription"
  /\ "VK_KHR_driver_properties" \in last.extensions
  /\ last.apiVersion = VK_MAKE_VERSION(2, 0, 3)
  /\ last.conformanceVersion = [major |-> 1, minor |-> 2, subminor |-> 3]
  /\ last.vulkan_api_version = VK_MAKE_VERSION(1, 2, 0)

\* C23 as stated: with VK_KHR_driver_properties vulkan_api_version is the
\* minimum of apiVersion and the conformance version, taken as versions of
\* major, minor and patch, and exceeds neither; without it, it is apiVersion.
C23_MinOfVersions ==
  last.op = "GetDeviceDescription" =>
    LET api == last.apiVersion
        conf == VK_MAKE_VERSION(last.conformanceVersion.major,
                                last.conformanceVersion.minor,
                                last.conformanceVersion.subminor)
        got == last.vulkan_api_version
    IN IF "VK_KHR_driver_properties" \notin last.extensions THEN got = api
       ELSE /\ got = (IF api <= conf THEN api ELSE conf)
            /\ got <= api /\ got <= conf

(***************************************************************************)
(* The constructor's loop over the physical devices                        *)
(***************************************************************************)
\* kVulkanMaxNumDevice: the length of ecache_ and of scache_.
kVulkanMaxNumDevice == 8
\* Most queue families of a physical device.
MaxQueueFamilies == 2

\* The producer's variant lists the families with graphics first.
Mutant_GetComputeQueueFamilies(queue_props) ==
  LET indexes == [i \in 1..Len(queue_props) |-> i - 1]
  IN SelectSeq(indexes, LAMBDA i : {"COMPUTE", "GRAPHICS"} \subseteq queue_props[i + 1])
       \o SelectSeq(indexes, LAMBDA i : /\ "COMPUTE" \in queue_props[i + 1]
                                        /\ "GRAPHICS" \notin queue_props[i + 1])

\* VulkanDeviceAPI::GetComputeQueueFamilies: the indexes of the families with
\* compute and without graphics, then of those with both; queue_props holds
\* the queueFlags of each family by name.
GetComputeQueueFamilies(queue_props) ==
  LET indexes == [i \in 1..Len(queue_props) |-> i - 1]
  IN SelectSeq(indexes, LAMBDA i : /\ "COMPUTE" \in queue_props[i + 1]
                                   /\ "GRAPHICS" \notin queue_props[i + 1])
       \o SelectSeq(indexes, LAMBDA i : {"COMPUTE", "GRAPHICS"} \subseteq queue_props[i + 1])

\* The loop over all_phy_devs from device k on: a context is pushed for each
\* device with a compute queue family, with the first family of the list.
RECURSIVE PushContexts(_, _, _)
PushContexts(all_phy_devs, k, contexts) ==
  IF k > Len(all_phy_devs) THEN contexts
  ELSE PushContexts(all_phy_devs, k + 1,
         The({IF queue_family_indexes = << >> THEN contexts
              ELSE Append(contexts,
                          [phy_device |-> k,
                           queue_family_index |-> queue_family_indexes[1]]) :
                queue_family_indexes \in
                  {GetComputeQueueFamilies(all_phy_devs[k])}}))

\* The constructor on a host with the physical devices all_phy_devs, each
\* given by the flags of its queue families.
EnumeratePhysicalDevices(all_phy_devs) ==
  ConstructorStep(
    [op |-> "vkEnumeratePhysicalDevices", ok |-> TRUE,
     all_phy_devs |-> all_phy_devs,
     contexts |-> PushContexts(all_phy_devs, 1, << >>)],
    << >>)

\* The queue families a device may have.
QueueProps ==
  UNION {[1..n -> SUBSET {"COMPUTE", "GRAPHICS"}] : n \in 0..MaxQueueFamilies}

\* Hosts of up to two devices with any queue families, and hosts of up to
\* one device more than kVulkanMaxNumDevice with one queue family each.
NextDevices ==
  /\ last.op = "none"
  /\ \/ \E n \in 0..2 : \E all_phy_devs \in [1..n -> QueueProps] :
          EnumeratePhysicalDevices(all_phy_devs)
     \/ \E n \in 3..(kVulkanMaxNumDevice + 1) :
          \E all_phy_devs \in [1..n -> {<< {"COMPUTE"} >>, << {"GRAPHICS"} >>}] :
            EnumeratePhysicalDevices(all_phy_devs)

SpecDevices == InitHost /\ [][NextDevices]_vars

\* The families of a device with compute and without graphics, and with both.
ComputeOnly(queue_props) ==
  {i \in 0..(Len(queue_props) - 1) :
     "COMPUTE" \in queue_props[i + 1] /\ "GRAPHICS" \notin queue_props[i + 1]}

ComputeGraphics(queue_props) ==
  {i \in 0..(Len(queue_props) - 1) :
     {"COMPUTE", "GRAPHICS"} \subseteq queue_props[i + 1]}

\* C24: the contexts are those of the physical devices with a compute queue
\* family, in the order of the devices; each uses the lowest family with
\* compute and without graphics if the device has one, and the lowest family
\* with both otherwise.
C24_QueueFamily ==
  last.op = "vkEnumeratePhysicalDevices" =>
    LET devs == last.all_phy_devs
        capable == {k \in 1..Len(devs) :
                      ComputeOnly(devs[k]) \cup ComputeGraphics(devs[k]) # {}}
    IN /\ {last.contexts[i].phy_device : i \in 1..Len(last.contexts)} = capable
       /\ Len(last.contexts) = Cardinality(capable)
       /\ \A i, j \in 1..Len(last.contexts) :
            i < j => last.contexts[i].phy_device < last.contexts[j].phy_device
       /\ \A i \in 1..Len(last.contexts) :
            LET props == devs[last.contexts[i].phy_device]
                wanted == IF ComputeOnly(props) # {} THEN ComputeOnly(props)
                          ELSE ComputeGraphics(props)
            IN /\ last.contexts[i].queue_family_index \in wanted
               /\ \A q \in wanted : last.contexts[i].queue_family_index <= q

\* A host has been set up whose first device has no compute family and whose
\* second has a family with both bits before one with compute alone.
C24_Witness ==
  /\ last.op = "vkEnumeratePhysicalDevices"
  /\ Len(last.all_phy_devs) = 2
  /\ last.all_phy_devs[1] = << {"GRAPHICS"} >>
  /\ last.all_phy_devs[2] = << {"COMPUTE", "GRAPHICS"}, {"COMPUTE"} >>
  /\ last.contexts = << [phy_device |-> 2, queue_family_index |-> 1] >>

\* C25: the constructor leaves at most kVulkanMaxNumDevice contexts, so that
\* every device id below the number of contexts, which context(device_id)
\* accepts, is an index of ecache_ and scache_.
C25_AtMostMaxNumDevice ==
  last.op = "vkEnumeratePhysicalDevices" =>
    /\ Len(last.contexts) <= kVulkanMaxNumDevice
    /\ \A device_id \in 0..(Len(last.contexts) - 1) :
         device_id < kVulkanMaxNumDevice

(***************************************************************************)
(* The instance layers the constructor asks for                            *)
(***************************************************************************)
\* Most layers vkEnumerateInstanceLayerProperties reports.
MaxLayers == 3

\* The three layers the constructor knows, and one it does not.
ValidationLayers == {"VK_LAYER_LUNARG_standard_validation", "VK_LAYER_LUNARG_parameter_validation", "VK_LAYER_KHRONOS_validation"}
LayerNames == ValidationLayers \cup {"VK_LAYER_MESA_overlay"}

\* What the loader reports: layer names in enumeration order.
LayerLists == UNION {[1..n -> LayerNames] : n \in 0..MaxLayers}

\* The variables that may be set when the constructor runs.
LayerEnvironments == UNION {[N -> EnvValues] : N \in SUBSET {"TVM_VULKAN_ENABLE_VALIDATION_LAYERS", "VULKAN_ENABLE_VALIDATION_LAYERS"}}

\* The loop over inst_layer_prop: each reported layer is compared with the
\* three names in turn and pushed when it is one of them.
RECURSIVE PushLayers(_)
PushLayers(inst_layer_prop) ==
  IF inst_layer_prop = << >> THEN << >>
  ELSE LET layerName == Head(inst_layer_prop)
       IN (IF layerName = "VK_LAYER_LUNARG_standard_validation"
             THEN << "VK_LAYER_LUNARG_standard_validation" >> ELSE << >>)
          \o (IF layerName = "VK_LAYER_LUNARG_parameter_validation"
                THEN << "VK_LAYER_LUNARG_parameter_validation" >> ELSE << >>)
          \o (IF layerName = "VK_LAYER_KHRONOS_validation"
                THEN << "VK_LAYER_KHRONOS_validation" >> ELSE << >>)
          \o PushLayers(Tail(inst_layer_prop))

\* The producer's variant takes the Khronos layer alone when it is there.
Mutant_layers(env, inst_layer_prop) ==
  LET enable == getenv(env, "TVM_VULKAN_ENABLE_VALIDATION_LAYERS")
      validation_enabled == enable # nullptr /\ enable # ""
      l == PushLayers(inst_layer_prop)
  IN IF ~validation_enabled THEN << >>
     ELSE IF "VK_LAYER_KHRONOS_validation" \in Range(l)
       THEN SelectSeq(l, LAMBDA n : n = "VK_LAYER_KHRONOS_validation")
       ELSE l

\* The lambda layers of the constructor: the layers passed to
\* vkCreateInstance.
layers(env, inst_layer_prop) ==
  LET enable == getenv(env, "TVM_VULKAN_ENABLE_VALIDATION_LAYERS")
      validation_enabled == enable # nullptr /\ enable # ""
  IN IF validation_enabled THEN PushLayers(inst_layer_prop) ELSE << >>

\* The constructor's first step.
EnumerateLayers(env, inst_layer_prop) ==
  ConstructorStep(
    [op |-> "layers", ok |-> TRUE, env |-> env,
     inst_layer_prop |-> inst_layer_prop,
     layers |-> layers(env, inst_layer_prop)],
    << >>)

NextLayers ==
  /\ last.op = "none"
  /\ \E env \in LayerEnvironments, inst_layer_prop \in LayerLists :
       EnumerateLayers(env, inst_layer_prop)

SpecLayers == InitHost /\ [][NextLayers]_vars

\* C35: with TVM_VULKAN_ENABLE_VALIDATION_LAYERS set to a value that is not
\* empty the constructor asks for every reported layer that is one of the
\* two LunarG layers or the Khronos layer, in the order reported, the
\* LunarG layers also when the Khronos layer is reported; with the variable
\* unset or empty it asks for no layer.
C35_ReportedValidationLayers ==
  last.op = "layers" =>
    IF IsSet(last.env, "TVM_VULKAN_ENABLE_VALIDATION_LAYERS")
      THEN last.layers
             = SelectSeq(last.inst_layer_prop, LAMBDA n : n \in ValidationLayers)
      ELSE last.layers = << >>

\* Validation is on, the loader reports a LunarG layer and the Khronos
\* layer, and the constructor asks for both.
C35_Witness ==
  /\ last.op = "layers"
  /\ IsSet(last.env, "TVM_VULKAN_ENABLE_VALIDATION_LAYERS")
  /\ "VK_LAYER_KHRONOS_validation" \in Range(last.layers)
  /\ "VK_LAYER_LUNARG_standard_validation" \in Range(last.layers)

\* C35 as stated, with the variable VULKAN_ENABLE_VALIDATION_LAYERS: set to
\* a value that is not empty, the Khronos layer is asked for when reported
\* and a LunarG layer only when it is reported and the Khronos layer is not;
\* unset or empty, no layer is asked for.
C35_KhronosPreferred ==
  last.op = "layers" =>
    LET reported == Range(last.inst_layer_prop)
        enabled == Range(last.layers)
    IN IF IsSet(last.env, "VULKAN_ENABLE_VALIDATION_LAYERS")
         THEN /\ enabled \subseteq ValidationLayers \cap reported
              /\ "VK_LAYER_KHRONOS_validation" \in reported
                   => enabled = {"VK_LAYER_KHRONOS_validation"}
         ELSE enabled = {}

(***************************************************************************)
(* Two threads launch kernels with a uniform block through one module and  *)
(* the same wrapped functions: the pipeline and the function's own cache   *)
(* are shared, the uniform buffer cache is the calling thread's.           *)
(***************************************************************************)
\* Each thread has its own handle of kernel f or shares the other's.
NextShared ==
  \/ \E c \in Funcs : GetFunction(c, "f")
  \/ \E t \in Threads, c \in Funcs :
       /\ PendingOf(t) < MaxUboPending
       /\ CallBegin(t, c, << >>, 1, 1)
  \/ \E t \in Threads : GetPipelineLookup(t)
  \/ \E t \in Threads : GetPipelineBuild(t)
  \/ \E t \in Threads : LaunchKernel(t)
  \/ \E t \in Threads : StreamSync(t, 0, nullptr)

SpecShared == InitUbo /\ [][NextShared]_vars

\* C36: a thread that is about to launch a kernel whose pipeline has
\* use_ubo holds, in its own uniform buffer cache, an entry for the device
\* of at least num_pack_args_ * 8 bytes, whichever thread built the
\* pipeline, and the checks of GetUniformBuffer pass in the launch.
C36_UboProvisioned ==
  /\ \A t \in Threads :
       (pc[t] = "launch" /\ funcs[call[t].f].scache_[call[t].device_id].use_ubo) =>
         /\ uniform_buffers_[t][call[t].device_id].present
         /\ uniform_buffers_[t][call[t].device_id].size
              >= funcs[call[t].f].num_pack_args_ * SizeofArgUnion64
  /\ (last.op = "LaunchKernel" /\ last.f.scache_[last.call.device_id].use_ubo) =>
       "GetUniformBuffer" \notin Fatal

(***************************************************************************)
(* One thread mixes copies between the host and a device buffer, copies    *)
(* between device buffers and kernel launches, and synchronizes only where *)
(* the copies do: the staging buffer grows while commands are pending.     *)
(***************************************************************************)
NextStaging ==
  \/ \E ptr \in {1, 2} :
       /\ ~heap[ptr].alive
       /\ AllocDataSpace("t1", 0, MaxSize)
  \/ GetFunction("c1", "f")
  \/ /\ PendingOf("t1") < MaxFacadePending
     /\ CallBegin("t1", "c1", << >>, 1, 1)
  \/ GetPipelineLookup("t1")
  \/ GetPipelineBuild("t1")
  \/ LaunchKernel("t1")
  \/ /\ PendingOf("t1") < MaxFacadePending
     /\ CopyOnDevice("t1", 1, 0, 2, 0, 1, nullptr)
  \/ \E k \in {1, MaxSize} : CopyFromHost("t1", Repeat(1, k), 1, 0, nullptr)
  \/ \E size \in {1, MaxSize} : CopyToHost("t1", 2, 0, size, nullptr)

SpecStaging == InitCopy /\ [][NextStaging]_vars

\* The deletions of a staging buffer the step just taken has made.
StagingGrowths ==
  SelectSeq(events, LAMBDA x : x.e = "DeleteHostVisibleBuffer" /\ x.kind = "staging")

\* C34: when StagingBuffer deletes the buffer of an entry to grow it, no
\* command recorded on the thread's Stream of that device and not yet
\* submitted names the deleted buffer, and the request has not
\* synchronized the Stream first.
C34_GrowthUnreferenced ==
  \A i \in DOMAIN events :
    (events[i].e = "DeleteHostVisibleBuffer" /\ events[i].kind = "staging") =>
      /\ events[i].recorded = {}
      /\ \A j \in 1..(i - 1) : events[j].e # "Synchronize"

\* A staging buffer has been deleted to grow while a kernel launch and a
\* copy between device buffers were recorded and not submitted.
C34_Witness ==
  /\ StagingGrowths # << >>
  /\ last.op \in {"CopyHostToDevice", "CopyDeviceToHost"} /\ last.ok
  /\ \E i \in DOMAIN events :
       /\ events[i].e = "Synchronize"
       /\ events[i].submitted >= 3

(***************************************************************************)
(* The end of a thread: ~VulkanThreadEntry                                 *)
(***************************************************************************)
\* The Vulkan calls of DeleteHostVisibleBuffer on a buffer that has a
\* vk_buf: unmap when mapped, then free the memory, then destroy the buffer.
DeleteCalls(buf) ==
  IF buf.present /\ buf.vk_buf # VK_NULL_HANDLE
    THEN (IF buf.host_addr
            THEN << [e |-> "vkUnmapMemory", buf |-> buf.vk_buf] >> ELSE << >>)
         \o << [e |-> "vkFreeMemory", buf |-> buf.vk_buf],
               [e |-> "vkDestroyBuffer", buf |-> buf.vk_buf] >>
    ELSE << >>

\* The orders in which a map keyed by device id can be walked.
DeviceOrders ==
  {o \in [1..Cardinality(Devices) -> Devices] : Range(o) = Devices}

\* for (const auto& kv : staging_buffers_) DeleteHostVisibleBuffer(...)
RECURSIVE DeleteStagingBuffers(_, _, _)
DeleteStagingBuffers(s, t, order) ==
  IF order = << >> THEN s
  ELSE The({DeleteStagingBuffers(s1, t, Tail(order)) :
              s1 \in {[s EXCEPT
                         !.events = @ \o DeleteCalls(s.staging_buffers_[t][Head(order)]),
                         !.staging_buffers_[t][Head(order)] =
                           DeleteHostVisibleBuffer(@)]}})

\* streams_.clear(): every Stream of the thread is destroyed.
ClearStreams(s, t) ==
  [s EXCEPT
     !.events = @ \o SelectSeq([i \in 1..Cardinality(Devices) |->
                                  [e |-> "~VulkanStream", d |-> i - 1]],
                               LAMBDA x : s.streams_[t][x.d].created),
     !.streams_[t] = [d \in Devices |-> NoStream]]

\* ~VulkanThreadEntry: pool.reset(), streams_.clear(), then the loop over
\* staging_buffers_. The maps go with the object; the record of a host
\* visible buffer whose Vulkan objects were not released stays as it is.
VulkanThreadEntryDestructor(t) ==
  /\ pc[t] = "idle"
  /\ \E order \in DeviceOrders :
       \E s \in {DeleteStagingBuffers(
                   ClearStreams(Ev(Env, [e |-> "pool.reset"]), t), t, order)} :
         Commit(s)
  /\ pc' = [pc EXCEPT ![t] = "exited"]
  /\ last' = [op |-> "~VulkanThreadEntry", ok |-> TRUE, t |-> t,
              streams |-> {d \in Devices : streams_[t][d].created},
              staging |-> staging_buffers_[t],
              uniform |-> uniform_buffers_[t]]
  /\ UNCHANGED << cfgVars, cacheVars, funcs, device, call >>

\* One thread launches kernels with a uniform block and copies from the
\* host, then ends.
NextThread ==
  \/ ~heap[1].alive /\ AllocDataSpace("t1", 0, MaxSize)
  \/ GetFunction("c1", "f")
  \/ /\ PendingOf("t1") < MaxUboPending
     /\ CallBegin("t1", "c1", << >>, 1, 1)
  \/ GetPipelineLookup("t1")
  \/ GetPipelineBuild("t1")
  \/ LaunchKernel("t1")
  \/ \E k \in 0..MaxSize : CopyFromHost("t1", Repeat(1, k), 1, 0, nullptr)
  \/ StreamSync("t1", 0, nullptr)
  \/ VulkanThreadEntryDestructor("t1")

SpecThread == InitUbo /\ [][NextThread]_vars

\* The host visible buffers a thread entry owned when it was torn down.
OwnedBuffers ==
  {b \in {last.staging[d] : d \in Devices} \cup {last.uniform[d] : d \in Devices} :
     b.present /\ b.vk_buf # VK_NULL_HANDLE /\ ~b.destroyed}

\* C39: the destructor of a thread entry resets the workspace pool,
\* destroys every Stream of the thread, and for every staging and uniform
\* buffer it owns unmaps the memory, frees it and destroys the buffer, so
\* that no buffer of the thread's caches is left alive.
C39_TeardownReleasesAll ==
  last.op = "~VulkanThreadEntry" =>
    /\ EventsOf("pool.reset") # << >>
    /\ \A d \in last.streams :
         /\ [e |-> "~VulkanStream", d |-> d] \in Range(events)
         /\ ~streams_[last.t][d].created
    /\ \A b \in OwnedBuffers :
         /\ [e |-> "vkUnmapMemory", buf |-> b.vk_buf] \in Range(events)
         /\ [e |-> "vkFreeMemory", buf |-> b.vk_buf] \in Range(events)
         /\ [e |-> "vkDestroyBuffer", buf |-> b.vk_buf] \in Range(events)
    /\ \A d \in Devices :
         /\ staging_buffers_[last.t][d].vk_buf # VK_NULL_HANDLE
              => staging_buffers_[last.t][d].destroyed
         /\ uniform_buffers_[last.t][d].vk_buf # VK_NULL_HANDLE
              => uniform_buffers_[last.t][d].destroyed

====
